---- MODULE Spec2Model ----
(***************************************************************************)
(* Model of the Obsidian "Comments Manager" plugin (src/main.ts).          *)
(*                                                                         *)
(* Strings are sequences of one-character strings; offsets are 0-based as  *)
(* in the TypeScript source, so the character at offset p of s is s[p+1].  *)
(***************************************************************************)
EXTENDS Integers, Sequences, FiniteSets, TLC

VARIABLES
    commentPrefix,   \* settings.commentPrefix
    content,         \* editor.getValue(): the text of the markdown editor
    comments,        \* CommentData[] held by the caller of extractComments
    allHeaders,      \* CommentsManagerPlugin.allHeaders
    groups,          \* the CommentGroup objects of the last grouping, in the
                     \* order of allGroups; children and parent are indexes
    result,          \* the forest returned by groupCommentsByHeaders: the
                     \* indexes of its root groups
    lastOp,          \* the arguments and outcome of the last handler that ran
    pc,              \* position of the running handler
    originalText,    \* createCommentElement's originalText of each rendered row
    refreshTimeout,  \* the live timers set by debounceRefresh, oldest first: the
                     \* time each has left; CommentsManagerPlugin.refreshTimeout
                     \* is the handle of the last one
    skipNextRefresh, \* CommentsManagerPlugin.skipNextRefresh
    refreshTimers,   \* pending 10 ms callbacks of CommentsView.refresh
    opTimers,        \* pending 100 ms timers that call refresh after a write
    typed,           \* number of changes the user has typed into the editor
    writes,          \* number of texts the panel has written to the editor
    defaultCollapsed,     \* settings.defaultCollapsed
    isCollapsed,          \* CommentsView.isCollapsed
    hasManualExpansions,  \* CommentsView.hasManualExpansions
    renderedGroups,       \* CommentsView.renderedGroups
    filteredGroups,       \* the CommentGroup objects created by the searches
                          \* since the last processComments
    commentsList,         \* the root groups rendered in the comments-list element
    currentSearchTerm,    \* CommentsView.currentSearchTerm
    skipTimers,           \* pending timers that clear skipNextRefresh
    cursor,               \* the line of the editor's cursor
    printMode             \* the print-mode modal and its export

forestVars == <<allHeaders, groups, result>>

panelVars == <<originalText, refreshTimeout, skipNextRefresh,
               refreshTimers, opTimers, typed, writes>>

collapseVars == <<defaultCollapsed, isCollapsed, hasManualExpansions, renderedGroups,
                  filteredGroups, commentsList, currentSearchTerm>>

viewVars == <<collapseVars, skipTimers, cursor, printMode>>

\* the view variables that CommentsView.refresh leaves alone
keptVars == <<defaultCollapsed, isCollapsed, hasManualExpansions, renderedGroups,
              filteredGroups, currentSearchTerm, skipTimers, cursor, printMode>>

vars == <<commentPrefix, content, comments, allHeaders, groups, result, lastOp, pc,
          originalText, refreshTimeout, skipNextRefresh,
          refreshTimers, opTimers, typed, writes, viewVars>>

----------------------------------------------------------------------------
(* Bounds of the model *)

MaxDocLen == 6

Alphabet == {"%", "a", " ", "\n"}

\* values of settings.commentPrefix: the default, a one-character prefix
\* and a prefix that is a space
Delims == {<<"%", "%">>, <<"%">>, <<" ">>}

\* texts typed into a comment row of the panel
NewTexts ==
    {<<>>, <<"a">>, <<" ", "a", " ">>, <<"a", "\n", "a">>, <<"%">>,
     <<"%", "%">>, <<"a", "%", "%", "a">>}

----------------------------------------------------------------------------
(* String primitives of the JavaScript runtime *)

\* String.prototype.substring(from, to) with 0-based offsets, to exclusive
Substring(s, from, to) == SubSeq(s, from + 1, to)

\* String.prototype.substring(from)
SubstringFrom(s, from) == SubSeq(s, from + 1, Len(s))

\* the characters String.prototype.trim removes
Whitespace == {" ", "\n"}

RECURSIVE TrimStart(_)
TrimStart(s) ==
    IF s # <<>> /\ Head(s) \in Whitespace THEN TrimStart(Tail(s)) ELSE s

RECURSIVE TrimEnd(_)
TrimEnd(s) ==
    IF s # <<>> /\ s[Len(s)] \in Whitespace
    THEN TrimEnd(SubSeq(s, 1, Len(s) - 1))
    ELSE s

\* String.prototype.trim
Trim(s) == TrimEnd(TrimStart(s))

\* (s.match(/\n/g) || []).length
CountNewlines(s) == Cardinality({k \in 1..Len(s) : s[k] = "\n"})

\* the literal lit occurs in s at 0-based offset p
OccursAt(s, lit, p) ==
    /\ p + Len(lit) <= Len(s)
    /\ \A k \in 1..Len(lit) : s[p + k] = lit[k]

Digit(d) == <<"0", "1", "2", "3", "4", "5", "6", "7", "8", "9">>[d + 1]

\* the decimal digits of n, as template literals print a number
RECURSIVE NumberToString(_)
NumberToString(n) ==
    IF n < 10 THEN <<Digit(n)>> ELSE NumberToString(n \div 10) \o <<Digit(n % 10)>>

----------------------------------------------------------------------------
(* extractComments: new RegExp(`${prefix}(.*?)${prefix}`, 'gs')            *)

NoMatch == [index |-> -1]

\* a group that, finding no closing prefix, takes the end of the text for it
LazyCloseOrEnd(s, prefix, from) ==
    IF \E q \in from..Len(s) : OccursAt(s, prefix, q)
    THEN CHOOSE q \in from..Len(s) :
            /\ OccursAt(s, prefix, q)
            /\ \A r \in from..(q - 1) : ~OccursAt(s, prefix, r)
    ELSE IF from + Len(prefix) <= Len(s) THEN Len(s) - Len(prefix) ELSE -1

\* the lazy group (.*?): the closing prefix is taken at the first offset
\* q >= from where it occurs; -1 when it occurs nowhere
RECURSIVE LazyClose(_, _, _)
LazyClose(s, prefix, from) ==
    IF from + Len(prefix) > Len(s) THEN -1
    ELSE IF OccursAt(s, prefix, from) THEN from
    ELSE LazyClose(s, prefix, from + 1)

\* the offset at which the opening prefix's match hands over to the group
GroupStart(p, prefix) == p + Len(prefix)

\* commentRegex.exec(content) with commentRegex.lastIndex = lastIndex:
\* the leftmost offset p >= lastIndex at which the whole pattern matches
RECURSIVE RegexExec(_, _, _)
RegexExec(s, prefix, lastIndex) ==
    IF lastIndex + Len(prefix) > Len(s) THEN NoMatch
    ELSE IF OccursAt(s, prefix, lastIndex)
              /\ LazyClose(s, prefix, GroupStart(lastIndex, prefix)) # -1
         THEN LET q == LazyClose(s, prefix, GroupStart(lastIndex, prefix))
              IN  [index |-> lastIndex,
                   m0    |-> Substring(s, lastIndex, q + Len(prefix)),
                   m1    |-> Substring(s, GroupStart(lastIndex, prefix), q)]
         ELSE RegexExec(s, prefix, lastIndex + 1)

\* a scan that resumes one character after the start of the last match
NextLastIndexOverlapping(match) == match.index + 1

\* the value the regex stores in lastIndex after a match (flag g)
NextLastIndex(match) == match.index + Len(match.m0)

\* an end offset computed from the captured group instead of the match
EndPosOfGroup(match) == match.index + Len(match.m1)

\* endPos = match.index + match[0].length
EndPos(match) == match.index + Len(match.m0)

\* the CommentData pushed for one match
MakeComment(s, match) ==
    [text      |-> Trim(match.m1),
     line      |-> CountNewlines(Substring(s, 0, match.index)),
     startPos  |-> match.index,
     endPos    |-> EndPos(match),
     fullMatch |-> match.m0]

RECURSIVE ExtractLoop(_, _, _, _)
ExtractLoop(s, prefix, lastIndex, acc) ==
    LET match == RegexExec(s, prefix, lastIndex)
    IN  IF match = NoMatch THEN acc
        ELSE ExtractLoop(s, prefix, NextLastIndex(match),
                         Append(acc, MakeComment(s, match)))

extractComments(s, prefix) == ExtractLoop(s, prefix, 0, <<>>)

----------------------------------------------------------------------------
(* extractHeaders: content.split('\n'), then /^(#{1,6})\s+(.+)$/ on each    *)
(* trimmed line                                                            *)

\* content.split('\n')
RECURSIVE SplitLines(_, _)
SplitLines(s, cur) ==
    IF s = <<>> THEN <<cur>>
    ELSE IF Head(s) = "\n" THEN <<cur>> \o SplitLines(Tail(s), <<>>)
    ELSE SplitLines(Tail(s), Append(cur, Head(s)))

\* the length of the run of # at the start of t
RECURSIVE HashRun(_)
HashRun(t) == IF t # <<>> /\ Head(t) = "#" THEN 1 + HashRun(Tail(t)) ELSE 0

\* the largest number of # the group (#{1,6}) may take
MaxHeaderLevel == 6

NoHeader == [line |-> -1]

\* headerRegex.exec(line.trim()) turned into the HeaderData pushed for it;
\* NoHeader when the line does not match
HeaderOfLine(line, lineIndex) ==
    LET t    == Trim(line)
        n    == HashRun(t)
        rest == SubSeq(t, n + 1, Len(t))
    IN  IF /\ n >= 1
           /\ n <= MaxHeaderLevel
           /\ rest # <<>>
           /\ Head(rest) \in Whitespace
           /\ TrimStart(rest) # <<>>
        THEN [text |-> Trim(TrimStart(rest)), level |-> n, line |-> lineIndex]
        ELSE NoHeader

RECURSIVE HeadersOfLines(_, _)
HeadersOfLines(lines, k) ==
    IF k > Len(lines) THEN <<>>
    ELSE LET h == HeaderOfLine(lines[k], k - 1)
         IN  (IF h = NoHeader THEN <<>> ELSE <<h>>) \o HeadersOfLines(lines, k + 1)

extractHeaders(s) == HeadersOfLines(SplitLines(s, <<>>), 1)

----------------------------------------------------------------------------
(* groupCommentsByHeaders and buildHierarchicalGroups *)

\* Array.prototype.sort((a, b) => a.line - b.line): a stable sort
RECURSIVE InsertByLine(_, _)
InsertByLine(sorted, h) ==
    IF sorted = <<>> THEN <<h>>
    ELSE IF sorted[Len(sorted)].line <= h.line THEN Append(sorted, h)
    ELSE Append(InsertByLine(SubSeq(sorted, 1, Len(sorted) - 1), h),
                sorted[Len(sorted)])

RECURSIVE SortByLine(_)
SortByLine(hs) ==
    IF hs = <<>> THEN <<>>
    ELSE InsertByLine(SortByLine(SubSeq(hs, 1, Len(hs) - 1)), hs[Len(hs)])

\* a scan that also accepts a header on the comment's own line
RECURSIVE NearestHeaderInclusive(_, _, _)
NearestHeaderInclusive(sortedHeaders, line, i) ==
    IF i < 1 THEN NoHeader
    ELSE IF sortedHeaders[i].line <= line THEN sortedHeaders[i]
    ELSE NearestHeaderInclusive(sortedHeaders, line, i - 1)

\* for (let i = sortedHeaders.length - 1; i >= 0; i--)
\*     if (sortedHeaders[i].line < comment.line) { nearestHeader = ...; break; }
RECURSIVE NearestHeader(_, _, _)
NearestHeader(sortedHeaders, line, i) ==
    IF i < 1 THEN NoHeader
    ELSE IF sortedHeaders[i].line < line THEN sortedHeaders[i]
    ELSE NearestHeader(sortedHeaders, line, i - 1)

\* groups.find(...): the index of the first group of the nearest header, or 0
FindGroup(flat, nearest) ==
    LET hits == {k \in 1..Len(flat) :
                    \/ flat[k].header = NoHeader /\ nearest = NoHeader
                    \/ /\ flat[k].header # NoHeader
                       /\ nearest # NoHeader
                       /\ flat[k].header.line = nearest.line}
    IN  IF hits = {} THEN 0 ELSE CHOOSE k \in hits : \A j \in hits : k <= j

\* the body of comments.forEach for one comment
AssignComment(flat, sortedHeaders, comment) ==
    LET nearest == NearestHeader(sortedHeaders, comment.line, Len(sortedHeaders))
        k       == FindGroup(flat, nearest)
    IN  IF k = 0
        THEN Append(flat, [header |-> nearest, comments |-> <<comment>>])
        ELSE [flat EXCEPT ![k].comments = Append(@, comment)]

RECURSIVE AssignAll(_, _, _, _)
AssignAll(flat, sortedHeaders, cs, k) ==
    IF k > Len(cs) THEN flat
    ELSE AssignAll(AssignComment(flat, sortedHeaders, cs[k]), sortedHeaders, cs, k + 1)

\* the comparator of groups.sort: the group without header first, the others
\* by header line
GroupCompare(a, b) ==
    IF a.header = NoHeader /\ b.header = NoHeader THEN 0
    ELSE IF a.header = NoHeader THEN -1
    ELSE IF b.header = NoHeader THEN 1
    ELSE a.header.line - b.header.line

RECURSIVE InsertGroup(_, _)
InsertGroup(sorted, g) ==
    IF sorted = <<>> THEN <<g>>
    ELSE IF GroupCompare(sorted[Len(sorted)], g) <= 0 THEN Append(sorted, g)
    ELSE Append(InsertGroup(SubSeq(sorted, 1, Len(sorted) - 1), g),
                sorted[Len(sorted)])

RECURSIVE SortGroups(_)
SortGroups(gs) ==
    IF gs = <<>> THEN <<>>
    ELSE InsertGroup(SortGroups(SubSeq(gs, 1, Len(gs) - 1)), gs[Len(gs)])

\* the flat groups handed to buildHierarchicalGroups
FlatGroups(cs, headers) == SortGroups(AssignAll(<<>>, SortByLine(headers), cs, 1))

\* commentGroupsByHeaderLine.get(header.line), or a new group without comments
GroupOfHeader(flat, header) ==
    LET hits == {k \in 1..Len(flat) :
                    flat[k].header # NoHeader /\ flat[k].header.line = header.line}
    IN  IF hits = {} THEN [header |-> header, comments |-> <<>>]
        ELSE flat[CHOOSE k \in hits : \A j \in hits : j <= k]

\* a builder that keeps only the groups that hold comments
AllGroupsWithComments(flat, sortedHeaders) == flat

\* allGroups: the group without header when there is one, then one group per
\* header in line order
AllGroups(flat, sortedHeaders) ==
    SelectSeq(flat, LAMBDA g : g.header = NoHeader)
        \o [k \in 1..Len(sortedHeaders) |-> GroupOfHeader(flat, sortedHeaders[k])]

\* a loop that pops only the groups of a strictly deeper level
RECURSIVE PopStackDeeperOnly(_, _, _)
PopStackDeeperOnly(stack, all, level) ==
    IF stack # <<>> /\ all[stack[Len(stack)]].header.level > level
    THEN PopStackDeeperOnly(SubSeq(stack, 1, Len(stack) - 1), all, level)
    ELSE stack

\* while (stack.length > 0 && stack[stack.length - 1].header!.level >= level)
\*     stack.pop();
RECURSIVE PopStack(_, _, _)
PopStack(stack, all, level) ==
    IF stack # <<>> /\ all[stack[Len(stack)]].header.level >= level
    THEN PopStack(SubSeq(stack, 1, Len(stack) - 1), all, level)
    ELSE stack

\* children.unshift(group)
PrependChild(children, g) == <<g>> \o children

\* parent.children.push(group)
PushChild(children, g) == Append(children, g)

NewNode(group) ==
    [header |-> group.header, comments |-> group.comments,
     children |-> <<>>, parent |-> 0, isCollapsed |-> FALSE]

\* the body of `for (const group of allGroups)` for the group at index k;
\* st holds the groups built so far, the stack and the roots
AssembleStep(st, all, k) ==
    IF all[k].header = NoHeader
    THEN [st EXCEPT !.result = Append(@, k)]
    ELSE LET stack == PopStack(st.stack, all, all[k].header.level)
         IN  IF stack # <<>>
             THEN LET parent == stack[Len(stack)]
                  IN  [nodes  |-> [st.nodes EXCEPT
                                      ![parent].children = PushChild(@, k),
                                      ![k].parent = parent],
                       stack  |-> Append(stack, k),
                       result |-> st.result]
             ELSE [nodes  |-> st.nodes,
                   stack  |-> Append(stack, k),
                   result |-> Append(st.result, k)]

RECURSIVE AssembleLoop(_, _, _)
AssembleLoop(st, all, k) ==
    IF k > Len(all) THEN st
    ELSE AssembleLoop(AssembleStep(st, all, k), all, k + 1)

\* buildHierarchicalGroups: [nodes, stack, result] after the loop
buildHierarchicalGroups(flat, headers) ==
    LET all == AllGroups(flat, SortByLine(headers))
    IN  AssembleLoop([nodes  |-> [k \in 1..Len(all) |-> NewNode(all[k])],
                      stack  |-> <<>>,
                      result |-> <<>>], all, 1)

groupCommentsByHeaders(cs, headers) ==
    buildHierarchicalGroups(FlatGroups(cs, headers), headers)

----------------------------------------------------------------------------
(* performCommentUpdate: the text written back by an edit commit *)

\* `${prefix}${newText}${prefix}`: the replacement without its padding
NewCommentNoPadding(prefix, newText) == prefix \o newText \o prefix

\* `${prefix} ${newText} ${prefix}`
NewComment(prefix, newText) == prefix \o <<" ">> \o newText \o <<" ">> \o prefix

\* an update that drops the white space that follows the span
performCommentUpdateTrimmed(s, prefix, comment, newText) ==
    Substring(s, 0, comment.startPos)
        \o NewComment(prefix, newText)
        \o TrimStart(SubstringFrom(s, comment.endPos))

\* beforeComment + newComment + afterComment
performCommentUpdate(s, prefix, comment, newText) ==
    Substring(s, 0, comment.startPos)
        \o NewComment(prefix, newText)
        \o SubstringFrom(s, comment.endPos)

----------------------------------------------------------------------------
(* Parser specification: extractComments applied to every bounded document, *)
(* then one edit written back and the text extracted again                  *)

RECURSIVE StringsUpTo(_)
StringsUpTo(n) ==
    IF n = 0 THEN {<<>>}
    ELSE LET shorter == StringsUpTo(n - 1)
         IN  shorter \cup {Append(s, c) : s \in {t \in shorter : Len(t) = n - 1},
                                          c \in Alphabet}

NoOp == [kind |-> "none"]

\* a comments-list element without groups
NoList == [live |-> FALSE, copy |-> FALSE, roots |-> <<>>, from |-> 1, bodies |-> 0]

\* no print-mode modal has been opened
NoPrint == [pc |-> "closed"]

\* the panel before any row is rendered and with no timer pending
PanelIdle ==
    /\ originalText = <<>>
    /\ refreshTimeout = <<>>
    /\ skipNextRefresh = FALSE
    /\ refreshTimers = 0
    /\ opTimers = 0
    /\ typed = 0
    /\ writes = 0
    /\ defaultCollapsed = TRUE
    /\ isCollapsed = defaultCollapsed
    /\ hasManualExpansions = FALSE
    /\ renderedGroups = <<>>
    /\ filteredGroups = <<>>
    /\ commentsList = NoList
    /\ currentSearchTerm = <<>>
    /\ skipTimers = 0
    /\ cursor = 0
    /\ printMode = NoPrint

InitParse ==
    /\ commentPrefix \in Delims
    /\ content \in StringsUpTo(MaxDocLen)
    /\ comments = <<>>
    /\ allHeaders = <<>>
    /\ groups = <<>>
    /\ result = <<>>
    /\ lastOp = NoOp
    /\ pc = "start"
    /\ PanelIdle

ExtractComments ==
    /\ pc = "start"
    /\ comments' = extractComments(content, commentPrefix)
    /\ pc' = "extracted"
    /\ UNCHANGED <<commentPrefix, content, lastOp, forestVars, panelVars, viewVars>>

WriteBack(i, newText) ==
    /\ pc = "extracted"
    /\ i \in 1..Len(comments)
    /\ content' = performCommentUpdate(content, commentPrefix, comments[i], newText)
    /\ lastOp' = [kind |-> "edit", index |-> i, newText |-> newText,
                  before |-> comments]
    /\ pc' = "updated"
    /\ UNCHANGED <<commentPrefix, comments, forestVars, panelVars, viewVars>>

ReExtractComments ==
    /\ pc = "updated"
    /\ comments' = extractComments(content, commentPrefix)
    /\ pc' = "reextracted"
    /\ UNCHANGED <<commentPrefix, content, lastOp, forestVars, panelVars, viewVars>>

NextParse ==
    \/ ExtractComments
    \/ \E i \in 1..MaxDocLen, newText \in NewTexts : WriteBack(i, newText)
    \/ ReExtractComments

SpecParse == InitParse /\ [][NextParse]_vars

----------------------------------------------------------------------------
(* Claims about the delimiter parser *)

Contains(s, lit) == \E p \in 0..Len(s) : OccursAt(s, lit, p)

\* C5: extractComments returns the annotations in strictly ascending
\* startPos order and no two spans overlap: for consecutive annotations a, b
\* of the result, a.endPos <= b.startPos.
C5_AscendingDisjoint ==
    pc \in {"extracted", "reextracted"} =>
        \A k \in 1..(Len(comments) - 1) :
            /\ comments[k].startPos < comments[k + 1].startPos
            /\ comments[k].endPos <= comments[k + 1].startPos

C5_Witness ==
    /\ pc = "extracted"
    /\ Len(comments) >= 2
    /\ comments[1].endPos < comments[2].startPos

\* C6: every extracted annotation has startPos < endPos, its fullMatch is the
\* document substring [startPos, endPos), which begins and ends with the
\* delimiter, its text is the trimmed substring between the two delimiters,
\* and its line is the number of newlines before startPos.
C6_SpanInvariant ==
    pc \in {"extracted", "reextracted"} =>
        \A k \in 1..Len(comments) :
            LET c == comments[k]
                n == Len(commentPrefix)
            IN  /\ c.startPos < c.endPos
                /\ c.endPos <= Len(content)
                /\ c.fullMatch = SubSeq(content, c.startPos + 1, c.endPos)
                /\ c.endPos - c.startPos >= 2 * n
                /\ OccursAt(content, commentPrefix, c.startPos)
                /\ OccursAt(content, commentPrefix, c.endPos - n)
                /\ c.text = Trim(SubSeq(content, c.startPos + n + 1, c.endPos - n))
                /\ c.line = Cardinality({j \in 1..c.startPos : content[j] = "\n"})

C6_Witness ==
    /\ pc = "extracted"
    /\ commentPrefix = <<"%", "%">>
    /\ Len(comments) = 1
    /\ comments[1].line = 1
    /\ comments[1].text = <<>>
    /\ comments[1].fullMatch = <<"%", "%", "\n", "%", "%">>

\* the outcome the edit round trip promises: the re-extracted list has the
\* length of the list before the edit, the annotation at the edited index has
\* the trimmed new text, and every other annotation keeps its text
RoundTripHolds ==
    /\ Len(comments) = Len(lastOp.before)
    /\ \A k \in 1..Len(comments) :
           comments[k].text = IF k = lastOp.index THEN Trim(lastOp.newText)
                                                 ELSE lastOp.before[k].text

\* C7 as stated: the round trip holds for every document, delimiter,
\* annotation and replacement text.
C7_RoundTripAnyText ==
    pc = "reextracted" => RoundTripHolds

\* C7 amended: the round trip holds when the delimiter contains no space and
\* the replacement text does not contain the delimiter.
C7_RoundTrip ==
    (/\ pc = "reextracted"
     /\ ~Contains(commentPrefix, <<" ">>)
     /\ ~Contains(lastOp.newText, commentPrefix)) => RoundTripHolds

C7_Witness ==
    /\ pc = "reextracted"
    /\ commentPrefix = <<"%", "%">>
    /\ lastOp.newText = <<" ", "a", " ">>
    /\ Len(comments) = 1
    /\ lastOp.before[1].text = <<>>
    /\ comments[1].text = <<"a">>

----------------------------------------------------------------------------
(* Hierarchy specification: processComments' extraction and grouping applied *)
(* to every document of at most MaxLines lines drawn from LineTemplates      *)

MaxLines == 5

\* "# a", "## a", "### a", a comment line, and a header line that also holds
\* a comment
LineTemplates ==
    {<<"#", " ", "a">>,
     <<"#", "#", " ", "a">>,
     <<"#", "#", "#", " ", "a">>,
     <<"%", "%", "a", "%", "%">>,
     <<"#", " ", "%", "%", "a", "%", "%">>}

RECURSIVE JoinLines(_)
JoinLines(lines) ==
    IF lines = <<>> THEN <<>>
    ELSE IF Len(lines) = 1 THEN lines[1]
    ELSE lines[1] \o <<"\n">> \o JoinLines(Tail(lines))

RECURSIVE LineSeqsUpTo(_)
LineSeqsUpTo(n) ==
    IF n = 0 THEN {<<>>}
    ELSE LET shorter == LineSeqsUpTo(n - 1)
         IN  shorter \cup {Append(ls, t) : ls \in {x \in shorter : Len(x) = n - 1},
                                           t \in LineTemplates}

\* "# A", "%% note1 %%", "## B", "%% note2 %%", each with its line break
CountExample ==
    <<"#", " ", "A", "\n",
      "%", "%", " ", "n", "o", "t", "e", "1", " ", "%", "%", "\n",
      "#", "#", " ", "B", "\n",
      "%", "%", " ", "n", "o", "t", "e", "2", " ", "%", "%", "\n">>

InitGroup ==
    /\ commentPrefix = <<"%", "%">>
    /\ content \in {JoinLines(ls) : ls \in LineSeqsUpTo(MaxLines)} \cup {CountExample}
    /\ comments = <<>>
    /\ allHeaders = <<>>
    /\ groups = <<>>
    /\ result = <<>>
    /\ lastOp = NoOp
    /\ pc = "start"
    /\ PanelIdle

\* processComments: extractComments, extractHeaders, groupCommentsByHeaders
\* a count that leaves out the child groups
countOwnComments(nodes, k) == Len(nodes[k].comments)

\* countTotalComments(group) for the group nodes[k]
RECURSIVE countTotalComments(_, _)
countTotalComments(nodes, k) ==
    LET RECURSIVE Sum(_)
        Sum(idxs) == IF idxs = <<>> THEN 0
                     ELSE countTotalComments(nodes, Head(idxs)) + Sum(Tail(idxs))
    IN  Len(nodes[k].comments) + Sum(nodes[k].children)

\* renderCommentGroup: headerText.textContent of the group nodes[k]
HeaderLabel(nodes, k) ==
    IF nodes[k].header # NoHeader
    THEN LET totalComments == countTotalComments(nodes, k)
         IN  IF totalComments > 0
             THEN nodes[k].header.text \o <<" ", "(">>
                      \o NumberToString(totalComments) \o <<")">>
             ELSE nodes[k].header.text
    ELSE <<"N", "o", " ", "H", "e", "a", "d", "e", "r", " ", "(">>
             \o NumberToString(Len(nodes[k].comments)) \o <<")">>

\* the groups are rendered: the text shown at each header
RenderHeaders ==
    /\ pc = "grouped"
    /\ lastOp' = [kind |-> "labels",
                  label |-> [k \in 1..Len(groups) |-> HeaderLabel(groups, k)]]
    /\ pc' = "rendered"
    /\ UNCHANGED <<commentPrefix, content, comments, forestVars, panelVars, viewVars>>

GroupComments ==
    /\ pc = "start"
    /\ LET cs      == extractComments(content, commentPrefix)
           headers == extractHeaders(content)
           built   == groupCommentsByHeaders(cs, headers)
       IN  /\ comments' = cs
           /\ allHeaders' = SortByLine(headers)
           /\ groups' = built.nodes
           /\ result' = built.result
    /\ pc' = "grouped"
    /\ UNCHANGED <<commentPrefix, content, lastOp, panelVars, viewVars>>

NextGroup ==
    \/ GroupComments
    \/ RenderHeaders

SpecGroup == InitGroup /\ [][NextGroup]_vars

----------------------------------------------------------------------------
(* Claims about the hierarchy builder *)

\* the groups of the forest in pre-order: a group, then its children in order
RECURSIVE Preorder(_, _)
Preorder(nodes, idxs) ==
    IF idxs = <<>> THEN <<>>
    ELSE <<Head(idxs)>> \o Preorder(nodes, nodes[Head(idxs)].children)
                       \o Preorder(nodes, Tail(idxs))

ForestOrder == Preorder(groups, result)

HeaderNodes == SelectSeq(ForestOrder, LAMBDA k : groups[k].header # NoHeader)

\* the headers on a line before `line` whose level is below `level`
Shallower(line, level) ==
    {j \in 1..Len(allHeaders) :
        allHeaders[j].line < line /\ allHeaders[j].level < level}

\* C1: each heading group with level L is a child of the group of the nearest
\* preceding heading whose level is strictly less than L, and a root of the
\* forest when no preceding heading has a smaller level.
C1_NearestShallowerParent ==
    pc = "grouped" =>
        \A k \in 1..Len(groups) :
            groups[k].header # NoHeader =>
                LET h   == groups[k].header
                    anc == Shallower(h.line, h.level)
                IN  IF anc = {}
                    THEN /\ groups[k].parent = 0
                         /\ \E r \in 1..Len(result) : result[r] = k
                    ELSE LET j == CHOOSE x \in anc :
                                      \A y \in anc : allHeaders[y].line <= allHeaders[x].line
                             p == groups[k].parent
                         IN  /\ p # 0
                             /\ groups[p].header = allHeaders[j]
                             /\ \E c \in 1..Len(groups[p].children) :
                                    groups[p].children[c] = k
                             /\ \A r \in 1..Len(result) : result[r] # k

\* H1, H2, H2, H1 yields [A[B, C], D]
C1_Witness ==
    /\ pc = "grouped"
    /\ Len(groups) = 4
    /\ result = <<1, 4>>
    /\ groups[1].children = <<2, 3>>
    /\ groups[2].header.level = 2
    /\ groups[3].header.level = 2
    /\ groups[4].header.level = 1

\* C2: the pre-order traversal of the returned forest, restricted to the
\* groups that have a heading, lists exactly the extracted headings in
\* ascending line order.
C2_PreorderIsLineOrder ==
    pc = "grouped" =>
        LET visited == HeaderNodes
        IN  /\ [k \in 1..Len(visited) |-> groups[visited[k]].header]
                   = extractHeaders(content)
            /\ \A k \in 1..(Len(visited) - 1) :
                   groups[visited[k]].header.line < groups[visited[k + 1]].header.line

C2_Witness ==
    /\ pc = "grouped"
    /\ Len(HeaderNodes) = 5
    /\ Len(result) = 2
    /\ \E k \in 1..Len(groups) : Len(groups[k].children) = 2
    /\ \E k \in 1..Len(groups) :
           groups[k].parent # 0 /\ groups[k].children # <<>>

\* the comments that have no header on a smaller line
Headerless == {k \in 1..Len(comments) : Shallower(comments[k].line, MaxHeaderLevel + 1) = {}}

NullNodes == {k \in 1..Len(ForestOrder) : groups[ForestOrder[k]].header = NoHeader}

\* C3: the forest holds exactly one group per extracted heading (also for a
\* heading with no annotation) and at most one group without heading; that
\* group exists iff some annotation has no heading on a smaller line, and it
\* is then a root without children, first in the forest.
C3_OneGroupPerHeading ==
    pc = "grouped" =>
        LET order   == ForestOrder
            headers == extractHeaders(content)
            nulls   == {k \in 1..Len(order) : groups[order[k]].header = NoHeader}
        IN  /\ \A a, b \in 1..Len(order) : order[a] = order[b] => a = b
            /\ \A j \in 1..Len(headers) :
                   Cardinality({k \in 1..Len(order) :
                       groups[order[k]].header = headers[j]}) = 1
            /\ Cardinality(nulls) <= 1
            /\ Len(order) = Len(headers) + Cardinality(nulls)
            /\ (nulls # {}) <=> (Headerless # {})
            /\ nulls # {} =>
                   /\ nulls = {1}
                   /\ result[1] = order[1]
                   /\ groups[result[1]].children = <<>>
                   /\ groups[result[1]].parent = 0

C3_Witness ==
    /\ pc = "grouped"
    /\ NullNodes # {}
    /\ Len(result) = 2
    /\ \E k \in 1..Len(groups) :
           groups[k].header # NoHeader /\ groups[k].comments = <<>>
    /\ \E k \in 1..Len(groups) :
           groups[k].header # NoHeader /\ groups[k].comments # <<>>

\* the places (group, position) of the forest `order` that hold comment c
PlacesOf(order, c) ==
    {pl \in (1..Len(groups)) \X (1..Len(comments)) :
        /\ pl[2] <= Len(groups[pl[1]].comments)
        /\ groups[pl[1]].comments[pl[2]] = c
        /\ \E k \in 1..Len(order) : order[k] = pl[1]}

\* the headers on a line before `line`
Preceding(line) == {j \in 1..Len(allHeaders) : allHeaders[j].line < line}

\* C4: every annotation is in the annotation list of exactly one group: the
\* group of the heading with the largest line strictly less than the
\* annotation's line, or the group without heading when there is none; within
\* a group the annotations keep document order.
C4_NearestPrecedingAssignment ==
    pc = "grouped" =>
        /\ \A i \in 1..Len(comments) :
               /\ Cardinality(PlacesOf(ForestOrder, comments[i])) = 1
               /\ \A pl \in PlacesOf(ForestOrder, comments[i]) :
                      LET h    == groups[pl[1]].header
                          prec == Preceding(comments[i].line)
                      IN  IF prec = {} THEN h = NoHeader
                          ELSE /\ h # NoHeader
                               /\ h.line < comments[i].line
                               /\ \A j \in prec : allHeaders[j].line <= h.line
        /\ \A k \in 1..Len(groups) :
               /\ \A a \in 1..(Len(groups[k].comments) - 1) :
                      groups[k].comments[a].startPos < groups[k].comments[a + 1].startPos
               /\ \A a \in 1..Len(groups[k].comments) :
                      \E i \in 1..Len(comments) : comments[i] = groups[k].comments[a]

\* a comment on the line of the second heading is put under the first heading
C4_Witness ==
    /\ pc = "grouped"
    /\ Len(allHeaders) = 2
    /\ Len(comments) = 3
    /\ comments[2].line = allHeaders[2].line
    /\ \E k \in 1..Len(groups) :
           /\ groups[k].header = allHeaders[1]
           /\ Len(groups[k].comments) = 2
           /\ groups[k].comments[2] = comments[2]

----------------------------------------------------------------------------
(* Relocation of a rendered comment in the current editor text *)

NoComment == [startPos |-> -1]

\* currentComments.find: the first element whose index is in hits
FindFirst(cs, hits) ==
    IF hits = {} THEN NoComment
    ELSE cs[CHOOSE k \in hits : \A j \in hits : k <= j]

\* currentComments.find(c => c.text === comment.text && c.line === comment.line)
FindExact(cs, comment) ==
    FindFirst(cs, {k \in 1..Len(cs) : /\ cs[k].text = comment.text
                                      /\ cs[k].line = comment.line})

\* currentComments.find(c => c.text === comment.text)
FindByText(cs, comment) ==
    FindFirst(cs, {k \in 1..Len(cs) : cs[k].text = comment.text})

\* updateCommentInEditor: matchingComment, else textMatch
EditTarget(cs, comment) ==
    IF FindExact(cs, comment) # NoComment THEN FindExact(cs, comment)
    ELSE FindByText(cs, comment)

\* deleteCommentFromEditor: matchingComment
DeleteTarget(cs, comment) == FindExact(cs, comment)

\* convertCommentToCallout: matchingComment
ConvertTarget(cs, comment) == FindExact(cs, comment)

----------------------------------------------------------------------------
(* The texts written by delete and by the single conversion *)

\* newContent.replace(/  +/g, ' ')
RECURSIVE FoldSpaces(_)
FoldSpaces(s) ==
    IF Len(s) < 2 THEN s
    ELSE IF s[1] = " " /\ s[2] = " " THEN FoldSpaces(Tail(s))
    ELSE <<s[1]>> \o FoldSpaces(Tail(s))

\* beforeComment + afterComment, then the space folding
DeletedContent(s, target) ==
    FoldSpaces(Substring(s, 0, target.startPos) \o SubstringFrom(s, target.endPos))

\* settings.printModeCalloutType
CalloutType == <<"c", "o", "m", "m", "e", "n", "t">>

\* the title when no custom title is given
DefaultTitle(comment, headers) ==
    LET nearest == NearestHeader(headers, comment.line, Len(headers))
    IN  <<"C", "o", "m", "m", "e", "n", "t">>
            \o (IF nearest = NoHeader THEN <<>> ELSE <<":", " ">> \o nearest.text)
            \o <<" ", "(", "L", "i", "n", "e", " ">>
            \o NumberToString(comment.line + 1) \o <<")">>

\* comment.text.split('\n').map(trim).filter(nonempty).join('\n> ')
RECURSIVE JoinQuoted(_)
JoinQuoted(lines) ==
    IF lines = <<>> THEN <<>>
    ELSE IF Trim(Head(lines)) = <<>> THEN JoinQuoted(Tail(lines))
    ELSE LET rest == JoinQuoted(Tail(lines))
         IN  Trim(Head(lines))
                 \o (IF rest = <<>> THEN <<>> ELSE <<"\n", ">", " ">> \o rest)

\* CommentsView.createCalloutFromComment
createCalloutFromComment(comment, headers, customTitle) ==
    LET title == IF Trim(customTitle) # <<>> THEN Trim(customTitle)
                 ELSE DefaultTitle(comment, headers)
    IN  <<"\n", ">", " ", "[", "!">> \o CalloutType \o <<"]", "+", " ">> \o title
            \o <<"\n", ">", " ">> \o JoinQuoted(SplitLines(comment.text, <<>>))
            \o <<"\n">>

\* beforeComment + callout + afterComment
ConvertedContent(s, target, customTitle) ==
    Substring(s, 0, target.startPos)
        \o createCalloutFromComment(target, extractHeaders(s), customTitle)
        \o SubstringFrom(s, target.endPos)

----------------------------------------------------------------------------
(* Rendering of the forest and the collapse state of its groups.  A rendered *)
(* group is [copy, idx, display]: the group is groups[idx], or               *)
(* filteredGroups[idx] when copy is TRUE, and display tells whether its      *)
(* content element is shown ('block') or hidden ('none').  commentsList is   *)
(* [live, copy, roots, from, bodies]: whether the element exists, the root   *)
(* groups rendered into it, the index in renderedGroups of the first of      *)
(* them, and the number of bodies (comments lists and empty-state messages)  *)
(* appended to the container since it was emptied.                           *)

Range(f) == {f[k] : k \in DOMAIN f}

\* hasChildren in renderCommentGroup, hasContent in collapseAllGroups
HasContent(group) == group.children # <<>> \/ group.comments # <<>>

\* `${level}-${text}`
Key(header) == <<header.level, header.text>>

\* rendered.group
GroupOf(rendered) ==
    IF rendered.copy THEN filteredGroups[rendered.idx] ELSE groups[rendered.idx]

\* the indexes of renderedGroups whose group has the key
RenderedWithKey(key) ==
    {j \in 1..Len(renderedGroups) :
        /\ GroupOf(renderedGroups[j]).header # NoHeader
        /\ Key(GroupOf(renderedGroups[j]).header) = key}

\* processComments: currentStates, filled in the order of renderedGroups, so
\* that the last rendered group of a key decides
currentStates ==
    LET keys == {Key(GroupOf(renderedGroups[j]).header) :
                    j \in {i \in 1..Len(renderedGroups) :
                              GroupOf(renderedGroups[i]).header # NoHeader}}
    IN  [key \in keys |->
            LET last == CHOOSE j \in RenderedWithKey(key) :
                            \A i \in RenderedWithKey(key) : i <= j
            IN  ~GroupOf(renderedGroups[last]).isCollapsed]

\* the blanket state given to the root groups only
setGroupCollapsedRoots(nodes, roots, collapsed) ==
    [k \in 1..Len(nodes) |->
        IF k \in Range(roots) THEN [nodes[k] EXCEPT !.isCollapsed = collapsed]
        ELSE nodes[k]]

\* setGroupCollapsedRecursively on each of the groups roots
setGroupCollapsedRecursively(nodes, roots, collapsed) ==
    LET reached == Range(Preorder(nodes, roots))
    IN  [k \in 1..Len(nodes) |->
            IF k \in reached THEN [nodes[k] EXCEPT !.isCollapsed = collapsed]
            ELSE nodes[k]]

\* renderCommentGroup on each of the groups roots: the records pushed to
\* renderedGroups
renderCommentGroup(nodes, roots, copy) ==
    LET shown == SelectSeq(Preorder(nodes, roots), LAMBDA k : HasContent(nodes[k]))
    IN  [j \in 1..Len(shown) |->
            [copy |-> copy, idx |-> shown[j],
             display |-> ~nodes[shown[j]].isCollapsed]]

\* restoreExpansionStates: the groups after the walk
RestoredGroups(nodes, states) ==
    [k \in 1..Len(nodes) |->
        IF nodes[k].header # NoHeader /\ Key(nodes[k].header) \in DOMAIN states
        THEN [nodes[k] EXCEPT !.isCollapsed = ~states[Key(nodes[k].header)]]
        ELSE nodes[k]]

\* restoreExpansionStates: the rendered groups after the walk; of the
\* rendered groups of one key, renderedGroups.find gives the first one
RestoredRendered(nodes, rendered, states) ==
    [j \in 1..Len(rendered) |->
        LET header == nodes[rendered[j].idx].header
        IN  IF /\ header # NoHeader
               /\ Key(header) \in DOMAIN states
               /\ \A i \in 1..(j - 1) :
                      \/ nodes[rendered[i].idx].header = NoHeader
                      \/ Key(nodes[rendered[i].idx].header) # Key(header)
            THEN [rendered[j] EXCEPT !.display = states[Key(header)]]
            ELSE rendered[j]]

\* createCommentElement: originalText of each row
Texts(cs) == [k \in 1..Len(cs) |-> cs[k].text]

\* the body of processComments after the snapshot states has been taken, in
\* a view whose isCollapsed is collapsed and whose hasManualExpansions is
\* manual: the comments, the forest and the rendered groups it leaves
RenderComments(text, states, collapsed, manual, searchTerm) ==
    LET cs       == extractComments(text, commentPrefix)
        headers  == extractHeaders(text)
        built    == groupCommentsByHeaders(cs, headers)
        initial  == IF collapsed /\ ~manual
                    THEN setGroupCollapsedRecursively(built.nodes, built.result, TRUE)
                    ELSE built.nodes
        rendered == renderCommentGroup(initial, built.result, FALSE)
        restore  == manual /\ DOMAIN states # {}
    IN  IF cs = <<>>
        THEN [comments |-> cs, headers |-> headers, nodes |-> built.nodes,
              result |-> built.result, rendered |-> <<>>,
              list |-> [NoList EXCEPT !.bodies = 1],
              searchTerm |-> searchTerm]
        ELSE [comments |-> cs, headers |-> headers,
              nodes    |-> IF restore THEN RestoredGroups(initial, states)
                           ELSE initial,
              result   |-> built.result,
              rendered |-> IF restore THEN RestoredRendered(initial, rendered, states)
                           ELSE rendered,
              list     |-> [live |-> TRUE, copy |-> FALSE, roots |-> built.result,
                           from |-> 1, bodies |-> 1],
              searchTerm |-> <<>>]

\* processComments(text)
processComments(text) ==
    RenderComments(text, currentStates, isCollapsed, hasManualExpansions,
                   currentSearchTerm)

\* the view variables after processComments has left the record p
Processed(p) ==
    /\ comments' = p.comments
    /\ originalText' = Texts(p.comments)
    /\ allHeaders' = SortByLine(p.headers)
    /\ groups' = p.nodes
    /\ result' = p.result
    /\ renderedGroups' = p.rendered
    /\ filteredGroups' = <<>>
    /\ commentsList' = [p.list EXCEPT !.bodies = commentsList.bodies + 1]
    /\ currentSearchTerm' = p.searchTerm

----------------------------------------------------------------------------
(* The panel and the editor: the user types into the editor and saves,      *)
(* deletes and converts rows of the panel; timers re-render the panel.  A    *)
(* handler that finds no markdown view returns without any effect, which is  *)
(* a stuttering step.  Navigation clicks, the only writers of TRUE to        *)
(* skipNextRefresh, are not part of this specification.                      *)

MaxTyped == 1
MaxWrites == 1

\* the documents the panel is opened on
Seeds ==
    {<<"%", "%", "a", "%", "%", "\n", "\n", "\n", "\n", "%", "%", "a", "%", "%">>,
     <<"#", " ", "a", "\n", "a", " ", "%", "%", "a", "%", "%", " ",
       "%", "%", "b", "%", "%">>}

\* what the user types at the start of the document in one change
TypedPieces == {<<"\n">>}

\* the texts committed from a row of the panel
EditTexts == {<<"b">>}

\* the titles entered in the conversion modal
CustomTitles == {<<>>, <<"T">>}

\* the panel has been opened on the document and has rendered it
Init ==
    /\ commentPrefix = <<"%", "%">>
    /\ content \in Seeds
    /\ defaultCollapsed = TRUE
    /\ isCollapsed = defaultCollapsed
    /\ hasManualExpansions = FALSE
    /\ LET p == RenderComments(content, <<>>, isCollapsed, hasManualExpansions, <<>>)
       IN  /\ comments = p.comments
           /\ originalText = Texts(p.comments)
           /\ allHeaders = SortByLine(p.headers)
           /\ groups = p.nodes
           /\ result = p.result
           /\ renderedGroups = p.rendered
           /\ filteredGroups = <<>>
           /\ commentsList = p.list
           /\ currentSearchTerm = p.searchTerm
    /\ lastOp = NoOp
    /\ pc = "idle"
    /\ refreshTimeout = <<>>
    /\ skipNextRefresh = FALSE
    /\ refreshTimers = 0
    /\ opTimers = 0
    /\ typed = 0
    /\ writes = 0
    /\ skipTimers = 0
    /\ cursor = 0
    /\ printMode = NoPrint

\* the delay of the debounce timer, 500 ms, in steps of 100 ms
DebounceDelay == 5

\* a new timer is set and the pending one is left to run
Accumulated(timers) == Append(timers, DebounceDelay)

\* window.clearTimeout(this.refreshTimeout), then window.setTimeout(..., 500)
Rescheduled(timers) == <<DebounceDelay>>

\* a debounceRefresh that leaves the flag as it is when it skips
DebounceRefreshKeepsFlag ==
    IF skipNextRefresh
    THEN UNCHANGED <<skipNextRefresh, refreshTimeout>>
    ELSE refreshTimeout' = Rescheduled(refreshTimeout) /\ UNCHANGED skipNextRefresh

\* debounceRefresh()
DebounceRefresh ==
    IF skipNextRefresh
    THEN skipNextRefresh' = FALSE /\ UNCHANGED refreshTimeout
    ELSE refreshTimeout' = Rescheduled(refreshTimeout) /\ UNCHANGED skipNextRefresh

\* CommentsView.refresh(): the container is emptied and the render is
\* deferred by 10 ms
Refresh ==
    /\ comments' = <<>>
    /\ originalText' = <<>>
    /\ commentsList' = NoList
    /\ refreshTimers' = refreshTimers + 1

\* editor.setValue(text), the success notice and the 100 ms timer; the
\* workspace may or may not report the write as an editor-change
WriteEditor(text) ==
    /\ writes < MaxWrites
    /\ content' = text
    /\ writes' = writes + 1
    /\ opTimers' = opTimers + 1
    /\ \/ DebounceRefresh
       \/ UNCHANGED <<refreshTimeout, skipNextRefresh>>
    /\ UNCHANGED <<comments, refreshTimers, commentsList>>

\* a handler that returns without re-rendering the panel
NotFoundSilently ==
    UNCHANGED <<content, comments, originalText, refreshTimers, opTimers, writes,
                refreshTimeout, skipNextRefresh, commentsList>>

\* the handler found no comment to act on: this.refresh()
NotFound ==
    /\ Refresh
    /\ UNCHANGED <<content, opTimers, writes, refreshTimeout, skipNextRefresh>>

\* the user changes the text in the editor: the editor-change event
EditorChangeStep(piece) ==
    /\ typed < MaxTyped
    /\ typed' = typed + 1
    /\ content' = piece \o content
    /\ DebounceRefresh
    /\ UNCHANGED <<commentPrefix, comments, originalText, forestVars, viewVars, pc,
                   refreshTimers, opTimers, writes>>

EditorChange(piece) ==
    /\ EditorChangeStep(piece)
    /\ lastOp' = NoOp

\* the oldest debounce timer fires: refreshCommentsView()
DebounceFireStep ==
    /\ refreshTimeout # <<>>
    /\ refreshTimeout' = Tail(refreshTimeout)
    /\ Refresh
    /\ UNCHANGED <<commentPrefix, content, forestVars, keptVars, pc, skipNextRefresh,
                   opTimers, typed, writes>>

DebounceFire ==
    /\ DebounceFireStep
    /\ lastOp' = NoOp

\* the 100 ms timer set after a write fires: this.refresh()
OpTimerFire ==
    /\ opTimers > 0
    /\ opTimers' = opTimers - 1
    /\ Refresh
    /\ lastOp' = NoOp
    /\ UNCHANGED <<commentPrefix, content, forestVars, keptVars, pc, refreshTimeout,
                   skipNextRefresh, typed, writes>>

\* the 10 ms callback of refresh(): processComments on the text read now
RefreshStep ==
    /\ refreshTimers > 0
    /\ refreshTimers' = refreshTimers - 1
    /\ Processed(processComments(content))
    /\ UNCHANGED <<commentPrefix, content, pc, refreshTimeout, skipNextRefresh,
                   opTimers, typed, writes, defaultCollapsed, isCollapsed,
                   hasManualExpansions, skipTimers, cursor, printMode>>

RefreshCallback ==
    /\ RefreshStep
    /\ lastOp' = NoOp

\* saveComment on row i with the text newText, which differs from the row's
\* originalText: updateCommentInEditor(comment, newText)
SaveCommentStep(i, newText) ==
    /\ i \in 1..Len(comments)
    /\ newText # originalText[i]
    /\ LET target == EditTarget(extractComments(content, commentPrefix), comments[i])
       IN  IF target = NoComment
           THEN NotFound
           ELSE /\ WriteEditor(performCommentUpdate(content, commentPrefix,
                                                    target, newText))
                /\ originalText' = [originalText EXCEPT ![i] = newText]
    /\ UNCHANGED <<commentPrefix, forestVars, keptVars, pc, typed>>

SaveComment(i, newText) ==
    /\ SaveCommentStep(i, newText)
    /\ LET target == EditTarget(extractComments(content, commentPrefix), comments[i])
       IN  lastOp' = [kind |-> "edit", stale |-> comments[i], before |-> content,
                      target |-> target,
                      notice |-> IF target = NoComment THEN "none"
                                 ELSE "Comment updated"]

\* deleteCommentFromEditor(comment)
deleteCommentFromEditor(comment) ==
    LET target == DeleteTarget(extractComments(content, commentPrefix), comment)
    IN  IF target = NoComment
        THEN NotFound
        ELSE /\ WriteEditor(DeletedContent(content, target))
             /\ UNCHANGED originalText

\* the delete button of row i, confirmed: deleteCommentFromEditor(comment)
DeleteComment(i) ==
    /\ i \in 1..Len(comments)
    /\ deleteCommentFromEditor(comments[i])
    /\ LET target == DeleteTarget(extractComments(content, commentPrefix), comments[i])
       IN  lastOp' = [kind |-> "delete", stale |-> comments[i], before |-> content,
                      target |-> target,
                      notice |-> IF target = NoComment THEN "none"
                                 ELSE "Comment deleted"]
    /\ UNCHANGED <<commentPrefix, forestVars, keptVars, pc, typed>>

\* convertCommentToCallout(comment, customTitle)
convertCommentToCallout(comment, customTitle) ==
    LET target == ConvertTarget(extractComments(content, commentPrefix), comment)
    IN  IF target = NoComment
        THEN NotFound
        ELSE /\ WriteEditor(ConvertedContent(content, target, customTitle))
             /\ UNCHANGED originalText

\* the convert button of row i and 'Convert to Callout' in the modal:
\* convertCommentToCallout(comment, customTitle)
ConvertComment(i, customTitle) ==
    /\ i \in 1..Len(comments)
    /\ convertCommentToCallout(comments[i], customTitle)
    /\ LET target == ConvertTarget(extractComments(content, commentPrefix), comments[i])
       IN  lastOp' = [kind |-> "convert", stale |-> comments[i], before |-> content,
                      target |-> target,
                      notice |-> IF target = NoComment THEN "none"
                                 ELSE IF customTitle # <<>>
                                 THEN "Comment converted to title"
                                 ELSE "Comment converted to callout"]
    /\ UNCHANGED <<commentPrefix, forestVars, keptVars, pc, typed>>

Next ==
    \/ \E piece \in TypedPieces : EditorChange(piece)
    \/ DebounceFire
    \/ OpTimerFire
    \/ RefreshCallback
    \/ \E i \in 1..Len(comments), newText \in EditTexts : SaveComment(i, newText)
    \/ \E i \in 1..Len(comments) : DeleteComment(i)
    \/ \E i \in 1..Len(comments), customTitle \in CustomTitles : ConvertComment(i, customTitle)

Spec == Init /\ [][Next]_vars

----------------------------------------------------------------------------
(* Relocation claims.  lastOp records the last operation of a row: the      *)
(* rendered (stale) comment, the editor text it ran on, the comment the      *)
(* handler acted on and the notice it showed.                                *)

\* the first comment with the stale text at most 2 lines from the stale line
FindNearby(cs, comment) ==
    FindFirst(cs, {k \in 1..Len(cs) : /\ cs[k].text = comment.text
                                      /\ cs[k].line - comment.line <= 2
                                      /\ comment.line - cs[k].line <= 2})

\* same text and line, else same text within 2 lines, else the first with
\* the same text
ThreeTiers(cs, comment) ==
    IF FindExact(cs, comment) # NoComment THEN FindExact(cs, comment)
    ELSE IF FindNearby(cs, comment) # NoComment THEN FindNearby(cs, comment)
    ELSE FindByText(cs, comment)

\* the comments of the text the last operation ran on
FreshComments == extractComments(lastOp.before, commentPrefix)

IsOp(kinds) == lastOp.kind \in kinds

\* C8: an edit commit acts on the comment found by the three tiers: same
\* text and line, else same text within 2 lines, else the first comment
\* with the same text.
C8_ThreeTiers ==
    IsOp({"edit"}) => lastOp.target = ThreeTiers(FreshComments, lastOp.stale)

\* C9: delete and single conversion act on the comment found by the same
\* three tiers as edit, so a comment whose line moved is still found.
C9_DeleteConvertTiers ==
    IsOp({"delete", "convert"})
        => lastOp.target = ThreeTiers(FreshComments, lastOp.stale)

\* C10: when no comment of the current text matches the stale one by any
\* tier, an edit, delete or conversion leaves the editor text unchanged,
\* shows no notice and starts a refresh of the panel.
C10_NotFoundLeavesText ==
    (IsOp({"edit", "delete", "convert"})
        /\ ThreeTiers(FreshComments, lastOp.stale) = NoComment)
        => /\ content = lastOp.before
           /\ lastOp.notice = "none"
           /\ comments = <<>>
           /\ refreshTimers >= 1

\* an edit of a row whose text is in no comment of the editor text any more
C10_Witness ==
    /\ IsOp({"edit"})
    /\ lastOp.stale.text = <<"a">>
    /\ FreshComments # <<>>
    /\ ThreeTiers(FreshComments, lastOp.stale) = NoComment
    /\ content = lastOp.before
    /\ refreshTimers >= 1

----------------------------------------------------------------------------
(* The groups of the panel: collapse toggles, search and heading clicks *)

\* the rendered groups whose elements are in the comments-list element
Listed ==
    IF commentsList.live THEN commentsList.from .. Len(renderedGroups) ELSE {}

\* collapseAllChildren(group): the descendants of nodes[k]
Descendants(nodes, k) == Range(Preorder(nodes, nodes[k].children))

\* toggleGroupCollapse without the walk over the children
ToggledAlone(nodes, k) ==
    [nodes EXCEPT ![k].isCollapsed = ~nodes[k].isCollapsed]

\* toggleGroupCollapse(group, ...) on nodes[k]: the groups it leaves
Toggled(nodes, k) ==
    IF nodes[k].isCollapsed
    THEN [nodes EXCEPT ![k].isCollapsed = FALSE]
    ELSE [i \in 1..Len(nodes) |->
            IF i = k \/ i \in Descendants(nodes, k)
            THEN [nodes[i] EXCEPT !.isCollapsed = TRUE]
            ELSE nodes[i]]

\* hasManualExpansions after toggleGroupCollapse has left the group
\* collapsed (nowCollapsed) or expanded
ManualAfterToggle(manual, nowCollapsed) ==
    IF nowCollapsed THEN manual ELSE TRUE

\* a click on the collapse icon of the rendered group j
ToggleGroupCollapse(j) ==
    /\ j \in Listed
    /\ LET r == renderedGroups[j]
           nowCollapsed == ~GroupOf(r).isCollapsed
       IN  /\ IF r.copy
              THEN /\ filteredGroups' = Toggled(filteredGroups, r.idx)
                   /\ UNCHANGED groups
              ELSE /\ groups' = Toggled(groups, r.idx)
                   /\ UNCHANGED filteredGroups
           /\ renderedGroups' = [renderedGroups EXCEPT ![j].display = ~nowCollapsed]
           /\ hasManualExpansions' = ManualAfterToggle(hasManualExpansions, nowCollapsed)
    /\ lastOp' = [kind |-> "toggle", rendered |-> j]
    /\ UNCHANGED <<commentPrefix, content, comments, allHeaders, result, pc,
                   panelVars, defaultCollapsed, isCollapsed, commentsList,
                   currentSearchTerm, skipTimers, cursor, printMode>>

\* collapseAllGroups / expandAllGroups: the groups of the array nodes, which
\* holds the copies when copy is TRUE, after the walk over renderedGroups
SetRenderedGroups(nodes, copy, collapsed) ==
    LET hit == {renderedGroups[j].idx :
                   j \in {i \in 1..Len(renderedGroups) :
                             /\ renderedGroups[i].copy = copy
                             /\ (collapsed => HasContent(GroupOf(renderedGroups[i])))}}
    IN  [k \in 1..Len(nodes) |->
            IF k \in hit THEN [nodes[k] EXCEPT !.isCollapsed = collapsed]
            ELSE nodes[k]]

\* a global toggle that forgets to flip isCollapsed
KeptCollapsed(collapsed) == collapsed

\* isCollapsed after toggleAllGroups
FlippedCollapsed(collapsed) == ~collapsed

\* the toggle button of the header: toggleAllGroups
ToggleAllGroups ==
    /\ commentsList.live
    /\ groups' = SetRenderedGroups(groups, FALSE, ~isCollapsed)
    /\ filteredGroups' = SetRenderedGroups(filteredGroups, TRUE, ~isCollapsed)
    /\ renderedGroups' =
           [j \in 1..Len(renderedGroups) |->
               IF isCollapsed \/ HasContent(GroupOf(renderedGroups[j]))
               THEN [renderedGroups[j] EXCEPT !.display = isCollapsed]
               ELSE renderedGroups[j]]
    /\ hasManualExpansions' = FALSE
    /\ isCollapsed' = FlippedCollapsed(isCollapsed)
    /\ lastOp' = [kind |-> "toggleAll"]
    /\ UNCHANGED <<commentPrefix, content, comments, allHeaders, result, pc,
                   panelVars, defaultCollapsed, commentsList,
                   currentSearchTerm, skipTimers, cursor, printMode>>

\* String.prototype.toLowerCase on the letters of the model
LowerCase(c) == IF c = "A" THEN "a" ELSE IF c = "B" THEN "b" ELSE c

toLowerCase(str) == [k \in 1..Len(str) |-> LowerCase(str[k])]

\* String.prototype.includes
Includes(str, term) == \E p \in 0..Len(str) : OccursAt(str, term, p)

\* a filter that compares the heading text as it is written
HeaderMatchesExactCase(group, searchTerm) ==
    /\ group.header # NoHeader
    /\ Includes(group.header.text, searchTerm)

\* filterGroupsRecursively: headerMatches
HeaderMatches(group, searchTerm) ==
    /\ group.header # NoHeader
    /\ Includes(toLowerCase(group.header.text), searchTerm)

\* filterGroupsRecursively: matchingComments
MatchingComments(group, searchTerm) ==
    SelectSeq(group.comments, LAMBDA c : Includes(toLowerCase(c.text), searchTerm))

\* filterGroupsRecursively: the group nodes[k] is pushed to filtered
RECURSIVE IsKept(_, _, _)
IsKept(nodes, k, searchTerm) ==
    \/ HeaderMatches(nodes[k], searchTerm)
    \/ MatchingComments(nodes[k], searchTerm) # <<>>
    \/ \E c \in Range(nodes[k].children) : IsKept(nodes, c, searchTerm)

\* the position of x in the sequence seq
IndexOf(seq, x) == CHOOSE i \in 1..Len(seq) : seq[i] = x

\* filterGroupsRecursively(groups, searchTerm): the filteredGroup objects it
\* creates, numbered from offset + 1, and the indexes of those it returns
filterGroupsRecursively(nodes, roots, searchTerm, offset) ==
    LET kept   == SelectSeq(Preorder(nodes, roots),
                            LAMBDA k : IsKept(nodes, k, searchTerm))
        CopyOf(k) == offset + IndexOf(kept, k)
        KeptOf(idxs) == SelectSeq(idxs, LAMBDA k : IsKept(nodes, k, searchTerm))
        CopiesOf(idxs) == [i \in 1..Len(KeptOf(idxs)) |-> CopyOf(KeptOf(idxs)[i])]
    IN  [nodes |-> [i \in 1..Len(kept) |->
                       [header      |-> nodes[kept[i]].header,
                        comments    |-> IF HeaderMatches(nodes[kept[i]], searchTerm)
                                        THEN nodes[kept[i]].comments
                                        ELSE MatchingComments(nodes[kept[i]], searchTerm),
                        children    |-> CopiesOf(nodes[kept[i]].children),
                        parent      |-> nodes[kept[i]].parent,
                        isCollapsed |-> FALSE]],
         roots |-> CopiesOf(roots)]

\* the comment rows created by rendering the groups roots
RECURSIVE RowsOf(_, _)
RowsOf(nodes, order) ==
    IF order = <<>> THEN <<>>
    ELSE nodes[Head(order)].comments \o RowsOf(nodes, Tail(order))

\* a filter without the early return for the empty search term
filterCommentsAlways(searchTerm) ==
    LET f   == filterGroupsRecursively(groups, result, searchTerm,
                                       Len(filteredGroups))
        all == filteredGroups \o f.nodes
    IN  [filtered |-> all,
         rendered |-> renderedGroups \o renderCommentGroup(all, f.roots, TRUE),
         list     |-> [live |-> TRUE, copy |-> TRUE, roots |-> f.roots,
                       from |-> Len(renderedGroups) + 1,
                       bodies |-> commentsList.bodies],
         rows     |-> RowsOf(all, Preorder(all, f.roots))]

\* filterComments(commentsList, commentGroups, searchTerm): what it renders
filterComments(searchTerm) ==
    IF searchTerm = <<>>
    THEN [filtered |-> filteredGroups,
          rendered |-> renderedGroups \o renderCommentGroup(groups, result, FALSE),
          list     |-> [live |-> TRUE, copy |-> FALSE, roots |-> result,
                        from |-> Len(renderedGroups) + 1,
                        bodies |-> commentsList.bodies],
          rows     |-> RowsOf(groups, Preorder(groups, result))]
    ELSE LET f   == filterGroupsRecursively(groups, result, searchTerm,
                                            Len(filteredGroups))
             all == filteredGroups \o f.nodes
         IN  [filtered |-> all,
              rendered |-> renderedGroups \o renderCommentGroup(all, f.roots, TRUE),
              list     |-> [live |-> TRUE, copy |-> TRUE, roots |-> f.roots,
                            from |-> Len(renderedGroups) + 1,
                            bodies |-> commentsList.bodies],
              rows     |-> RowsOf(all, Preorder(all, f.roots))]

MaxRendered == 5

\* the values typed into the search input
SearchValues ==
    {<<>>, <<"A", " ">>, <<"x">>}

\* the 300 ms timer of the search input, or the clear button when value is
\* empty: performSearch
PerformSearch(value) ==
    /\ commentsList.live
    /\ Len(renderedGroups) <= MaxRendered
    /\ LET searchTerm == Trim(toLowerCase(value))
           f == filterComments(searchTerm)
       IN  /\ currentSearchTerm' = searchTerm
           /\ filteredGroups' = f.filtered
           /\ renderedGroups' = f.rendered
           /\ commentsList' = f.list
           /\ comments' = f.rows
           /\ originalText' = Texts(f.rows)
    /\ lastOp' = [kind |-> "search", value |-> value]
    /\ UNCHANGED <<commentPrefix, content, allHeaders, groups, result, pc,
                   refreshTimeout, skipNextRefresh, refreshTimers, opTimers, typed,
                   writes, defaultCollapsed, isCollapsed, hasManualExpansions,
                   skipTimers, cursor, printMode>>

\* the groups rendered in the comments-list element
ListedNodes == IF commentsList.copy THEN filteredGroups ELSE groups

ListedGroups ==
    IF commentsList.live THEN Range(Preorder(ListedNodes, commentsList.roots)) ELSE {}

\* headers.find(h => h.text === header.text && h.level === header.level)
FindHeader(headers, header) ==
    LET hits == {i \in 1..Len(headers) : /\ headers[i].text = header.text
                                         /\ headers[i].level = header.level}
    IN  IF hits = {} THEN NoHeader
        ELSE headers[CHOOSE i \in hits : \A j \in hits : i <= j]

MaxSkipTimers == 1
MaxRefreshTimers == 1

\* a click on the heading text of the listed group k: skipNextRefresh, the
\* 100 ms timer that clears it, and highlightHeaderInEditor
HeaderClickWithin(k, most) ==
    /\ k \in ListedGroups
    /\ ListedNodes[k].header # NoHeader
    /\ skipTimers < most
    /\ skipNextRefresh' = TRUE
    /\ skipTimers' = skipTimers + 1
    /\ LET match == FindHeader(extractHeaders(content), ListedNodes[k].header)
       IN  cursor' = IF match = NoHeader THEN cursor ELSE match.line
    /\ lastOp' = [kind |-> "navigate", header |-> ListedNodes[k].header]
    /\ UNCHANGED <<commentPrefix, content, comments, forestVars, pc, originalText,
                   refreshTimeout, refreshTimers, opTimers, typed, writes,
                   collapseVars, printMode>>

HeaderClick(k) == HeaderClickWithin(k, MaxSkipTimers)

\* the 100 ms timer of a navigation click fires
SkipTimerFire ==
    /\ skipTimers > 0
    /\ skipTimers' = skipTimers - 1
    /\ skipNextRefresh' = FALSE
    /\ lastOp' = NoOp
    /\ UNCHANGED <<commentPrefix, content, comments, forestVars, pc, originalText,
                   refreshTimeout, refreshTimers, opTimers, typed, writes,
                   collapseVars, cursor, printMode>>

\* the workspace reports an editor-change for which the text is the same
\* (a cursor move, a file opened again): debounceRefresh
EditorChangeEventStep ==
    /\ refreshTimers < MaxRefreshTimers
    /\ DebounceRefresh
    /\ UNCHANGED <<commentPrefix, content, comments, forestVars, pc, originalText,
                   refreshTimers, opTimers, typed, writes, viewVars>>

EditorChangeEvent ==
    /\ EditorChangeEventStep
    /\ lastOp' = NoOp

\* the workspace reports an active-leaf-change: refreshCommentsView
ActiveLeafChange ==
    /\ refreshTimers < MaxRefreshTimers
    /\ Refresh
    /\ lastOp' = NoOp
    /\ UNCHANGED <<commentPrefix, content, forestVars, keptVars, pc, refreshTimeout,
                   skipNextRefresh, opTimers, typed, writes>>

\* the 'Default collapsed view' toggle of the settings tab
ChangeDefaultCollapsed(value) ==
    /\ refreshTimers < MaxRefreshTimers
    /\ value # defaultCollapsed
    /\ defaultCollapsed' = value
    /\ Refresh
    /\ lastOp' = NoOp
    /\ UNCHANGED <<commentPrefix, content, forestVars, pc, refreshTimeout,
                   skipNextRefresh, opTimers, typed, writes, isCollapsed,
                   hasManualExpansions, renderedGroups, filteredGroups,
                   currentSearchTerm, skipTimers, cursor, printMode>>

\* the 10 ms callback of refresh(), recorded as the last handler
RenderCallback ==
    /\ RefreshStep
    /\ lastOp' = [kind |-> "render"]

H1a == <<"#", " ", "a">>
H2b == <<"#", "#", " ", "b">>
H3A == <<"#", "#", "#", " ", "A">>
H1B == <<"#", " ", "B">>
Cx  == <<"%", "%", "x", "%", "%">>
Ca  == <<"%", "%", "a", "%", "%">>
Cb  == <<"%", "%", "b", "%", "%">>

\* the documents the panel is opened on: three nested headings with a
\* comment each, and a document with a comment before the first heading, two
\* headings of the same level and text, and a heading without comments
ViewSeeds ==
    {JoinLines(<<H1a, Cx, H2b, Cx, H3A, Cb>>),
     JoinLines(<<Cx, H1a, Ca, H1a, Cb, H1B>>)}

\* the panel has been opened on one of the documents seeds, and its first
\* refresh has run
PanelOpenedOn(seeds) ==
    /\ commentPrefix = <<"%", "%">>
    /\ content \in seeds
    /\ defaultCollapsed \in BOOLEAN
    /\ isCollapsed = defaultCollapsed
    /\ hasManualExpansions = FALSE
    /\ LET p == RenderComments(content, <<>>, isCollapsed, hasManualExpansions, <<>>)
       IN  /\ comments = p.comments
           /\ originalText = Texts(p.comments)
           /\ allHeaders = SortByLine(p.headers)
           /\ groups = p.nodes
           /\ result = p.result
           /\ renderedGroups = p.rendered
           /\ filteredGroups = <<>>
           /\ commentsList = p.list
           /\ currentSearchTerm = p.searchTerm
    /\ lastOp = NoOp
    /\ pc = "idle"
    /\ refreshTimeout = <<>>
    /\ skipNextRefresh = FALSE
    /\ refreshTimers = 0
    /\ opTimers = 0
    /\ typed = 0
    /\ writes = 0
    /\ skipTimers = 0
    /\ cursor = 0
    /\ printMode = NoPrint

InitView == PanelOpenedOn(ViewSeeds)

NextView ==
    \/ \E j \in 1..Len(renderedGroups) : ToggleGroupCollapse(j)
    \/ ToggleAllGroups
    \/ ActiveLeafChange
    \/ \E value \in BOOLEAN : ChangeDefaultCollapsed(value)
    \/ RenderCallback
    \/ \E k \in 1..Len(groups) : HeaderClick(k)
    \/ SkipTimerFire
    \/ EditorChangeEvent
    \/ DebounceFire

SpecView == InitView /\ [][NextView]_vars

----------------------------------------------------------------------------
(* Claims about the collapse state of the groups *)

\* the step is the handler of the given kind
Step(kind) == lastOp'.kind = kind

\* the group of the collapse icon clicked in the step
Clicked == renderedGroups[lastOp'.rendered].idx

\* C11: collapsing an expanded group puts the group and every descendant
\* group into the collapsed state; expanding a collapsed group changes the
\* state of that group only.
C11_CollapseCascades ==
    [][(Step("toggle") /\ ~renderedGroups[lastOp'.rendered].copy) =>
          IF groups[Clicked].isCollapsed
          THEN groups' = [groups EXCEPT ![Clicked].isCollapsed = FALSE]
          ELSE \A k \in 1..Len(groups) :
                  groups'[k].isCollapsed =
                      IF k = Clicked \/ k \in Descendants(groups, Clicked)
                      THEN TRUE ELSE groups[k].isCollapsed]_vars

\* A, containing B, containing C, has been collapsed and expanded again: A
\* is expanded, B and C are collapsed
C11_Witness ==
    /\ lastOp.kind = "toggle"
    /\ ~defaultCollapsed
    /\ Len(result) = 1
    /\ groups[result[1]].children # <<>>
    /\ lastOp.rendered = 1
    /\ ~groups[1].isCollapsed
    /\ \A d \in Descendants(groups, 1) : groups[d].isCollapsed
    /\ Cardinality(Descendants(groups, 1)) = 2

\* the groups of the forest, and those of them that are rendered with a
\* collapse icon
EveryGroup == 1..Len(groups)

GroupsWithContent == {k \in 1..Len(groups) : HasContent(groups[k])}

\* C12: a rebuild on a document whose headings are unchanged leaves every
\* group that has a collapse icon in the collapsed or expanded state it had
\* just before the rebuild.
C12_StatesSurviveRebuild ==
    [][(Step("render") /\ allHeaders' = allHeaders /\ Len(groups') = Len(groups)) =>
          \A k \in GroupsWithContent :
              groups'[k].isCollapsed = groups[k].isCollapsed]_vars

\* C13: every per-group toggle, collapsing or expanding, sets
\* hasManualExpansions.
C13_ToggleSetsDirty ==
    [][Step("toggle") => hasManualExpansions']_vars

\* the global toggle on the groups chosen by touched: all of them get the
\* state opposite to isCollapsed, isCollapsed flips, hasManualExpansions is
\* cleared, and no other step clears hasManualExpansions
GlobalToggle(touched) ==
    /\ Step("toggleAll") =>
          /\ \A k \in touched : groups'[k].isCollapsed = ~isCollapsed
          /\ isCollapsed' = ~isCollapsed
          /\ ~hasManualExpansions'
    /\ (hasManualExpansions /\ ~hasManualExpansions') => Step("toggleAll")

\* C14 as claimed: the global toggle puts every group of the forest into
\* one and the same state, flips the global collapsed state and clears the
\* dirty flag, and no other action clears the dirty flag.
C14_GlobalToggleEveryGroup == [][GlobalToggle(EveryGroup)]_vars

\* C14: the global toggle puts every group that has comments or child
\* groups into one and the same state, flips isCollapsed and clears
\* hasManualExpansions, and no other action clears hasManualExpansions.
C14_GlobalToggle == [][GlobalToggle(GroupsWithContent)]_vars

\* the global toggle has expanded the groups with content, and a heading
\* without comments and child groups has kept its collapsed flag
C14_Witness ==
    /\ lastOp.kind = "toggleAll"
    /\ ~isCollapsed
    /\ ~hasManualExpansions
    /\ \E k \in 1..Len(groups) : HasContent(groups[k])
    /\ \A k \in 1..Len(groups) : HasContent(groups[k]) => ~groups[k].isCollapsed
    /\ \E k \in 1..Len(groups) : ~HasContent(groups[k]) /\ groups[k].isCollapsed

\* a rebuild gives every group the state blanket while the dirty flag is
\* clear, and the state of the snapshot to every group whose key is in the
\* snapshot while the dirty flag is set
Rebuild(blanket) ==
    Step("render") =>
        \A k \in 1..Len(groups') :
            /\ ~hasManualExpansions => groups'[k].isCollapsed = blanket
            /\ (/\ hasManualExpansions
                /\ groups'[k].header # NoHeader
                /\ Key(groups'[k].header) \in DOMAIN currentStates)
                   => groups'[k].isCollapsed = ~currentStates[Key(groups'[k].header)]

\* C15 as claimed: a rebuild with the dirty flag clear gives every group the
\* state of the default-collapsed setting.
C15_BlanketIsSetting == [][Rebuild(defaultCollapsed)]_vars

\* C15: a rebuild with the dirty flag clear gives every group the state of
\* the view's isCollapsed; with the dirty flag set, every group whose
\* (level, text) key is in the snapshot gets the snapshot's state.
C15_BlanketIsViewState == [][Rebuild(isCollapsed)]_vars

\* a rebuild after a global toggle: the view is expanded although the
\* setting says collapsed, and nested groups got the blanket state
C15_Witness ==
    /\ lastOp.kind = "render"
    /\ ~hasManualExpansions
    /\ isCollapsed # defaultCollapsed
    /\ \E k \in 1..Len(groups) : groups[k].parent # 0
    /\ \A k \in 1..Len(groups) : groups[k].isCollapsed = isCollapsed

\* C16: a click on a heading's text moves the cursor to the line of that
\* heading and leaves the collapsed state of every group, isCollapsed and
\* hasManualExpansions unchanged, also in a rebuild that runs while the
\* suppression timer of the click is pending.
C16_HeaderClickKeepsStates ==
    [][/\ Step("navigate") =>
             /\ cursor' = lastOp'.header.line
             /\ groups' = groups
             /\ isCollapsed' = isCollapsed
             /\ hasManualExpansions' = hasManualExpansions
       /\ (Step("render") /\ skipTimers > 0) =>
             /\ \A k \in GroupsWithContent :
                   groups'[k].isCollapsed = groups[k].isCollapsed
             /\ isCollapsed' = isCollapsed
             /\ hasManualExpansions' = hasManualExpansions]_vars

----------------------------------------------------------------------------
(* The search input of the panel *)

H2A == <<"#", "#", " ", "A">>

\* the documents searched: three nested headings with a comment each, and a
\* comment before the first heading followed by a heading without comments
\* and its sub-heading
SearchSeeds ==
    {JoinLines(<<H1a, Cx, H2b, Cx, H3A, Cb>>),
     JoinLines(<<Cx, H1B, H2A, Cx>>)}

InitSearch == PanelOpenedOn(SearchSeeds)

NextSearch ==
    \/ \E value \in SearchValues : PerformSearch(value)
    \/ \E j \in 1..Len(renderedGroups) : ToggleGroupCollapse(j)

SpecSearch == InitSearch /\ [][NextSearch]_vars

\* the text of the heading or of a comment of the group contains the term,
\* whatever the case of its letters
MatchesTerm(group, term) ==
    \/ /\ group.header # NoHeader
       /\ Includes(toLowerCase(group.header.text), toLowerCase(term))
    \/ \E i \in 1..Len(group.comments) :
          Includes(toLowerCase(group.comments[i].text), toLowerCase(term))

\* the group k of the forest or one of its descendants matches the term
ShouldKeep(k, term) ==
    \E d \in {k} \union Descendants(groups, k) : MatchesTerm(groups[d], term)

KeptOf(idxs, term) == SelectSeq(idxs, LAMBDA k : ShouldKeep(k, term))

\* the groups of the filtered forest, in the order they are listed
FilteredOrder == Preorder(filteredGroups, commentsList.roots)

\* the positions in order of the groups idxs
PositionsIn(order, idxs) == [j \in 1..Len(idxs) |-> IndexOf(order, idxs[j])]

\* C17: after a search for a non-empty term the filtered forest holds
\* exactly the groups whose heading contains the term (whatever the case),
\* or with a comment of their own that contains it, or with a kept
\* descendant, in their original order and nesting, and each of them is
\* expanded.
C17_FilterKeepsMatches ==
    (lastOp.kind = "search" /\ currentSearchTerm # <<>>) =>
        LET want == KeptOf(ForestOrder, currentSearchTerm)
            got  == FilteredOrder
        IN  /\ commentsList.copy
            /\ Len(got) = Len(want)
            /\ PositionsIn(got, commentsList.roots)
                   = PositionsIn(want, KeptOf(result, currentSearchTerm))
            /\ \A i \in 1..Len(got) :
                  /\ filteredGroups[got[i]].header = groups[want[i]].header
                  /\ PositionsIn(got, filteredGroups[got[i]].children)
                         = PositionsIn(want, KeptOf(groups[want[i]].children,
                                                    currentSearchTerm))
                  /\ ~filteredGroups[got[i]].isCollapsed
            /\ \A j \in Listed : renderedGroups[j].display

\* a search that keeps a group for its descendant only, keeps a group whose
\* heading matches in another case, and drops a group
C17_Witness ==
    /\ lastOp.kind = "search"
    /\ currentSearchTerm # <<>>
    /\ Len(FilteredOrder) < Len(groups)
    /\ \E k \in 1..Len(groups) :
          /\ ShouldKeep(k, currentSearchTerm)
          /\ ~MatchesTerm(groups[k], currentSearchTerm)
    /\ \E k \in 1..Len(groups) :
          /\ groups[k].header # NoHeader
          /\ ~Includes(groups[k].header.text, currentSearchTerm)
          /\ Includes(toLowerCase(groups[k].header.text), currentSearchTerm)

\* C18: a search leaves the groups of the unfiltered forest, their comments
\* and their collapsed flags as they were, and a search for the empty term
\* lists exactly the unfiltered forest, each group shown in the state of
\* its collapsed flag.
C18_EmptyFilterRestores ==
    [][Step("search") =>
          /\ groups' = groups
          /\ result' = result
          /\ currentSearchTerm' = <<>> =>
                /\ ~commentsList'.copy
                /\ commentsList'.roots = result
                /\ comments' = RowsOf(groups, ForestOrder)
                /\ LET shown == SelectSeq(ForestOrder, LAMBDA k : HasContent(groups[k]))
                   IN  /\ commentsList'.from + Len(shown) = Len(renderedGroups') + 1
                       /\ \A i \in 1..Len(shown) :
                             renderedGroups'[commentsList'.from + i - 1]
                                 = [copy |-> FALSE, idx |-> shown[i],
                                    display |-> ~groups[shown[i]].isCollapsed]]_vars

\* the empty search after a search that filtered: the unfiltered forest is
\* listed again with some of its groups collapsed and some expanded
C18_Witness ==
    /\ lastOp.kind = "search"
    /\ currentSearchTerm = <<>>
    /\ filteredGroups # <<>>
    /\ ~commentsList.copy
    /\ \E k \in GroupsWithContent : groups[k].isCollapsed
    /\ \E k \in GroupsWithContent : ~groups[k].isCollapsed

----------------------------------------------------------------------------
(* Print mode: the conversion of every comment, the preview and the export *)

\* CommentsManagerPlugin.createCalloutFromComment(comment, headers)
createPrintCallout(comment, headers) ==
    <<"\n", ">", " ", "[", "!">> \o CalloutType \o <<"]", "+", " ">>
        \o DefaultTitle(comment, headers)
        \o <<"\n", ">", " ">> \o JoinQuoted(SplitLines(comment.text, <<>>))
        \o <<"\n">>

\* the comment c inserted into the sequence sorted, which is in descending
\* or in ascending order of startPos
RECURSIVE InsertComment(_, _, _)
InsertComment(c, sorted, descending) ==
    IF sorted = <<>> THEN <<c>>
    ELSE IF (IF descending THEN c.startPos > Head(sorted).startPos
                           ELSE c.startPos < Head(sorted).startPos)
         THEN <<c>> \o sorted
         ELSE <<Head(sorted)>> \o InsertComment(c, Tail(sorted), descending)

RECURSIVE SortComments(_, _)
SortComments(cs, descending) ==
    IF cs = <<>> THEN <<>>
    ELSE InsertComment(Head(cs), SortComments(Tail(cs), descending), descending)

\* the comments sorted by a.startPos - b.startPos
sortedAscending(cs) == SortComments(cs, FALSE)

\* [...comments].sort((a, b) => b.startPos - a.startPos)
sortedComments(cs) == SortComments(cs, TRUE)

\* the loop of convertCommentsToCallouts over sortedComments
RECURSIVE ReplaceLoop(_, _, _)
ReplaceLoop(res, sorted, headers) ==
    IF sorted = <<>> THEN res
    ELSE LET comment == Head(sorted)
             callout == createPrintCallout(comment, headers)
             before  == Substring(res, 0, comment.startPos)
             after   == SubstringFrom(res, comment.endPos)
         IN  ReplaceLoop(before \o callout \o after, Tail(sorted), headers)

convertCommentsToCallouts(s) ==
    LET cs      == extractComments(s, commentPrefix)
        headers == extractHeaders(s)
    IN  IF cs = <<>> THEN s ELSE ReplaceLoop(s, sortedComments(cs), headers)

\* setValue fires an editor-change: debounceRefresh, or no listener reacts
SetValue(text) ==
    /\ content' = text
    /\ \/ DebounceRefresh
       \/ UNCHANGED <<refreshTimeout, skipNextRefresh>>

\* a preview that opens whatever the conversion gave
OpensPreviewAlways(text, convertedContent) == TRUE

\* activatePrintMode goes on to the preview: not (convertedContent === content)
OpensPreview(text, convertedContent) == convertedContent # text

\* the Print Mode button or command: activatePrintMode; activeView tells
\* whether a markdown view was found
ActivatePrintMode(activeView) ==
    /\ printMode.pc = "closed"
    /\ IF ~activeView
       THEN /\ lastOp' = [kind |-> "noActiveView",
                          notice |-> "No active markdown file found"]
            /\ UNCHANGED printMode
       ELSE IF Trim(content) = <<>>
       THEN /\ lastOp' = [kind |-> "emptyFile", notice |-> "The current file is empty"]
            /\ UNCHANGED printMode
       ELSE LET convertedContent == convertCommentsToCallouts(content)
            IN  /\ lastOp' = [kind |-> "printMode", content |-> content,
                              convertedContent |-> convertedContent,
                              notice |-> IF OpensPreview(content, convertedContent)
                                         THEN "none"
                                         ELSE "No comments found to convert"]
                /\ printMode' =
                       IF OpensPreview(content, convertedContent)
                       THEN [pc |-> "preview", originalContent |-> content,
                             convertedContent |-> convertedContent]
                       ELSE printMode
    /\ UNCHANGED <<commentPrefix, content, comments, forestVars, pc, panelVars,
                   collapseVars, skipTimers, cursor>>

\* the Cancel button of the preview
CancelPreview ==
    /\ printMode.pc = "preview"
    /\ printMode' = NoPrint
    /\ lastOp' = [kind |-> "cancel"]
    /\ UNCHANGED <<commentPrefix, content, comments, forestVars, pc, panelVars,
                   collapseVars, skipTimers, cursor>>

\* the Copy Content button of the preview: the converted text goes to the
\* clipboard
CopyContent ==
    /\ printMode.pc = "preview"
    /\ lastOp' = [kind |-> "copy", clipboard |-> printMode.convertedContent]
    /\ UNCHANGED <<commentPrefix, content, comments, forestVars, pc, panelVars,
                   collapseVars, skipTimers, cursor, printMode>>

\* the Export button: triggerPDFExport up to its first await
TriggerPDFExport ==
    /\ printMode.pc = "preview"
    /\ printMode' = [pc |-> "closing", originalContent |-> content,
                     convertedContent |-> printMode.convertedContent]
    /\ lastOp' = [kind |-> "export"]
    /\ UNCHANGED <<commentPrefix, content, comments, forestVars, pc, panelVars,
                   collapseVars, skipTimers, cursor>>

\* triggerPDFExport after the 200 ms: the converted text is set; beforeSwap
\* keeps the text it replaces
ExportSwap ==
    /\ printMode.pc = "closing"
    /\ SetValue(printMode.convertedContent)
    /\ printMode' = [pc |-> "swapped", originalContent |-> printMode.originalContent,
                     beforeSwap |-> content]
    /\ lastOp' = [kind |-> "swap"]
    /\ UNCHANGED <<commentPrefix, comments, forestVars, pc, originalText,
                   refreshTimers, opTimers, typed, writes, collapseVars,
                   skipTimers, cursor>>

\* triggerPDFExport after the 800 ms: the notice and the restore command
ExportNotice ==
    /\ printMode.pc = "swapped"
    /\ printMode' = [printMode EXCEPT !.pc = "notice"]
    /\ lastOp' = NoOp
    /\ UNCHANGED <<commentPrefix, content, comments, forestVars, pc, panelVars,
                   collapseVars, skipTimers, cursor>>

\* restoreContent, called by a click on the notice, which hides the notice,
\* or by the restore command, which also removes the command
RestoreContent(byCommand) ==
    /\ printMode.pc \in (IF byCommand THEN {"notice", "command"} ELSE {"notice"})
    /\ SetValue(printMode.originalContent)
    /\ printMode' = IF byCommand THEN NoPrint ELSE [printMode EXCEPT !.pc = "command"]
    /\ lastOp' = [kind |-> "restore"]
    /\ UNCHANGED <<commentPrefix, comments, forestVars, pc, originalText,
                   refreshTimers, opTimers, typed, writes, collapseVars,
                   skipTimers, cursor>>

\* a catch block that leaves the text as the failure left it
CaughtContentKept(text, originalContent, restoreThrows) == text

\* the text after the catch block of triggerPDFExport: originalContent is
\* set, unless that setValue throws as well
CaughtContent(text, originalContent, restoreThrows) ==
    IF restoreThrows THEN text ELSE originalContent

\* a step of the try block of triggerPDFExport throws, before the converted
\* text is set (close, focus) or after it (refresh, the notice, addCommand):
\* the catch block shows a notice and sets originalContent
ExportError(restoreThrows) ==
    /\ printMode.pc \in {"closing", "swapped"}
    /\ content' = CaughtContent(content, printMode.originalContent, restoreThrows)
    /\ \/ DebounceRefresh
       \/ UNCHANGED <<refreshTimeout, skipNextRefresh>>
    /\ printMode' = NoPrint
    /\ lastOp' = [kind |-> "exportError", at |-> printMode.pc,
                  restoreThrows |-> restoreThrows,
                  notice |-> "Error preparing for PDF export"]
    /\ UNCHANGED <<commentPrefix, comments, forestVars, pc, originalText,
                   refreshTimers, opTimers, typed, writes, collapseVars,
                   skipTimers, cursor>>

\* the editor takes no input while the preview is open
TypeInEditor(piece) ==
    /\ printMode.pc # "preview"
    /\ EditorChange(piece)

MaxPieces == 2

\* a heading, a comment, a comment of two lines with text around it, and a
\* blank
PrintPieces ==
    {H1a, Ca,
     <<"x", " ", "%", "%", "a", "\n", "b", "%", "%", " ", "y">>,
     <<" ">>}

RECURSIVE PieceSeqsUpTo(_)
PieceSeqsUpTo(n) ==
    IF n = 0 THEN {<<>>}
    ELSE LET shorter == PieceSeqsUpTo(n - 1)
         IN  shorter \cup {Append(ls, t) : ls \in {x \in shorter : Len(x) = n - 1},
                                           t \in PrintPieces}

InitPrint ==
    /\ commentPrefix = <<"%", "%">>
    /\ content \in {JoinLines(ls) : ls \in PieceSeqsUpTo(MaxPieces)}
    /\ comments = <<>>
    /\ allHeaders = <<>>
    /\ groups = <<>>
    /\ result = <<>>
    /\ lastOp = NoOp
    /\ pc = "idle"
    /\ PanelIdle

NextPrint ==
    \/ \E activeView \in BOOLEAN : ActivatePrintMode(activeView)
    \/ CancelPreview
    \/ CopyContent
    \/ TriggerPDFExport
    \/ ExportSwap
    \/ ExportNotice
    \/ \E byCommand \in BOOLEAN : RestoreContent(byCommand)
    \/ \E restoreThrows \in BOOLEAN : ExportError(restoreThrows)
    \/ \E piece \in TypedPieces : TypeInEditor(piece)

SpecPrint == InitPrint /\ [][NextPrint]_vars

\* C19: restore, by the notice or by the command, sets the text of the
\* editor to exactly the text the editor held just before the converted text
\* was set.
C19_RestoreIsExact ==
    [][Step("restore") => content' = printMode.beforeSwap]_vars

\* the text s with the span of each of the comments cs, taken in ascending
\* order from offset from on, replaced by the callout of the comment
RECURSIVE Spliced(_, _, _, _)
Spliced(s, cs, headers, from) ==
    IF cs = <<>> THEN SubstringFrom(s, from)
    ELSE Substring(s, from, Head(cs).startPos)
             \o createPrintCallout(Head(cs), headers)
             \o Spliced(s, Tail(cs), headers, Head(cs).endPos)

\* C20: convertCommentsToCallouts(text) is text with the span of every
\* extracted comment replaced by the callout of that comment and every
\* other character kept in place and order; without comments it is text.
C20_EverySpanReplaced ==
    lastOp.kind = "printMode" =>
        LET cs == extractComments(lastOp.content, commentPrefix)
        IN  /\ lastOp.convertedContent
                   = Spliced(lastOp.content, cs, extractHeaders(lastOp.content), 0)
            /\ cs = <<>> => lastOp.convertedContent = lastOp.content

\* a text with two comments, one of them of two lines, and characters
\* before, between and after them has been converted
C20_Witness ==
    /\ lastOp.kind = "printMode"
    /\ LET cs == extractComments(lastOp.content, commentPrefix)
       IN  /\ Len(cs) >= 2
           /\ cs[1].startPos > 0
           /\ cs[2].startPos > cs[1].endPos
           /\ cs[2].endPos < Len(lastOp.content)
           /\ \E i \in 1..Len(cs) : "\n" \in Range(cs[i].text)
    /\ lastOp.convertedContent # lastOp.content

\* C21: Cancel and Copy Content leave the text of the editor as it is; the
\* converted text gets into the editor only by the step that follows the
\* Export button, and the text that step writes is the conversion of the
\* text the editor holds at that moment.
C21_ConversionIsStaged ==
    [][/\ (Step("printMode") \/ Step("cancel") \/ Step("copy") \/ Step("export"))
              => content' = content
       /\ Step("swap") => content' = convertCommentsToCallouts(content)]_vars

\* the restore command is registered
CommandRegistered == printMode.pc \in {"notice", "command"}

\* the converted text has been set and the original text not yet set again
SwappedIn == printMode.pc \in {"swapped", "notice"}

\* C22: the restore command is registered exactly while a conversion is
\* swapped in: from the write of the converted text until the original text
\* is restored, by the notice or by the command.
C22_CommandOnlyWhileSwapped == CommandRegistered <=> SwappedIn

\* C27: activatePrintMode ends with a notice, opens no preview and changes
\* neither the text of the editor nor any other state when no markdown view
\* is found, when the text is empty or blank, and when the text holds no
\* comment.
C27_AbortsKeepState ==
    [][(\/ Step("noActiveView")
        \/ Step("emptyFile")
        \/ (Step("printMode") /\ extractComments(content, commentPrefix) = <<>>))
          => /\ lastOp'.notice # "none"
             /\ printMode' = printMode
             /\ printMode'.pc = "closed"
             /\ content' = content
             /\ UNCHANGED <<commentPrefix, comments, forestVars, pc, panelVars,
                            collapseVars, skipTimers, cursor>>]_vars

\* print mode was asked for on a text with a heading and no comment
C27_Witness ==
    /\ lastOp.kind = "printMode"
    /\ lastOp.notice = "No comments found to convert"
    /\ lastOp.content # <<>>
    /\ extractHeaders(lastOp.content) # <<>>
    /\ printMode.pc = "closed"

\* the text the editor held before the swap of the running export
PreSwapText ==
    IF printMode.pc = "swapped" THEN printMode.beforeSwap ELSE content

----------------------------------------------------------------------------
(* Claims about delimiters without a closing partner *)

\* the offsets at which the delimiter occurs in the text
Occurrences(s, prefix) == {p \in 0..Len(s) : OccursAt(s, prefix, p)}

\* the k-th smallest element of the set of numbers occ
Nth(occ, k) == CHOOSE p \in occ : Cardinality({q \in occ : q < p}) = k - 1

\* C29: when the delimiter occurs an odd number 2n+1 of times in the text
\* and no two occurrences overlap, extractComments gives n comments, the
\* i-th from occurrence 2i-1 to the end of occurrence 2i, and the last
\* occurrence lies in no span; with one occurrence it gives none.
C29_UnterminatedDelimiter ==
    pc = "extracted" =>
        LET occ   == Occurrences(content, commentPrefix)
            count == Cardinality(occ)
        IN  (/\ count % 2 = 1
             /\ \A p, q \in occ : p < q => q - p >= Len(commentPrefix))
            => /\ Len(comments) = count \div 2
               /\ \A i \in 1..Len(comments) :
                     /\ comments[i].startPos = Nth(occ, 2 * i - 1)
                     /\ comments[i].endPos = Nth(occ, 2 * i) + Len(commentPrefix)
                     /\ comments[i].endPos <= Nth(occ, count)
               /\ count = 1 => comments = <<>>

\* three occurrences of a delimiter with text between them and after the
\* last one
C29_Witness ==
    /\ pc = "extracted"
    /\ LET occ == Occurrences(content, commentPrefix)
       IN  /\ Cardinality(occ) = 3
           /\ \A p, q \in occ : p < q => q - p > Len(commentPrefix)
           /\ Nth(occ, 3) + Len(commentPrefix) < Len(content)
    /\ Len(comments) = 1

----------------------------------------------------------------------------
(* Claims about the counts shown at the headers *)

\* the comments of the text that lie in the group k or in a group below it
InSubtree(k) ==
    {i \in 1..Len(comments) :
        \E d \in {k} \union Descendants(groups, k) :
            \E j \in 1..Len(groups[d].comments) : groups[d].comments[j] = comments[i]}

RECURSIVE SumOfCounts(_)
SumOfCounts(idxs) ==
    IF idxs = <<>> THEN 0
    ELSE Cardinality(InSubtree(Head(idxs))) + SumOfCounts(Tail(idxs))

\* C30: the count shown at a heading group is the number of comments of the
\* group and of all groups below it, the counts of the root groups add up
\* to the number of extracted comments, and for the text "# A", "%% note1
\* %%", "## B", "%% note2 %%" the forest is [A[B]] with one comment each, on
\* lines 1 and 3, and A shows 2.
C30_SubtreeCounts ==
    pc = "rendered" =>
        /\ \A k \in 1..Len(groups) :
              (groups[k].header # NoHeader /\ InSubtree(k) # {}) =>
                  lastOp.label[k] = groups[k].header.text \o <<" ", "(">>
                                       \o NumberToString(Cardinality(InSubtree(k)))
                                       \o <<")">>
        /\ SumOfCounts(result) = Len(comments)
        /\ content = CountExample =>
              /\ Len(groups) = 2
              /\ result = <<1>>
              /\ groups[1].header.text = <<"A">>
              /\ groups[1].children = <<2>>
              /\ groups[2].header.text = <<"B">>
              /\ groups[2].children = <<>>
              /\ Len(groups[1].comments) = 1
              /\ groups[1].comments[1].line = 1
              /\ Len(groups[2].comments) = 1
              /\ groups[2].comments[1].line = 3
              /\ lastOp.label[1] = <<"A", " ", "(", "2", ")">>

\* the headers of the example have been rendered
C30_Witness ==
    /\ pc = "rendered"
    /\ content = CountExample
    /\ lastOp.label = <<<<"A", " ", "(", "2", ")">>, <<"B", " ", "(", "1", ")">>>>

----------------------------------------------------------------------------
(* The automatic refresh: editor-change notifications, the debounce timer,   *)
(* the navigation clicks that set skipNextRefresh, and the deferred render.  *)
(* Time passes in steps of 100 ms for the debounce timer; the timers that    *)
(* clear skipNextRefresh and the 10 ms render callback fire at any moment.   *)

\* the documents the panel is opened on
RefreshSeeds ==
    {Ca, JoinLines(<<H1a, Cx>>)}

\* highlightCommentInEditor: match || comment
HighlightTarget(cs, comment) ==
    LET match == FindFirst(cs, {k \in 1..Len(cs) : /\ cs[k].text = comment.text
                                                    /\ cs[k].line = comment.line
                                                    /\ cs[k].startPos = comment.startPos})
    IN  IF match # NoComment THEN match
        ELSE IF FindNearby(cs, comment) # NoComment THEN FindNearby(cs, comment)
        ELSE comment

\* (content.substring(0, target.startPos).match(/\n/g) || []).length
StartLine(text, target) ==
    CountNewlines(Substring(text, 0, IF target.startPos < Len(text)
                                     THEN target.startPos ELSE Len(text)))

\* a click on the row i of the panel, outside its text and its buttons:
\* skipNextRefresh, highlightCommentInEditor with its 200 ms timer, and the
\* 300 ms timer of the click
RowClick(i) ==
    /\ i \in 1..Len(comments)
    /\ skipTimers < MaxSkipTimers
    /\ skipNextRefresh' = TRUE
    /\ skipTimers' = skipTimers + 2
    /\ cursor' = StartLine(content,
                           HighlightTarget(extractComments(content, commentPrefix),
                                           comments[i]))
    /\ lastOp' = [kind |-> "rowClick", row |-> i]
    /\ UNCHANGED <<commentPrefix, content, comments, forestVars, pc, originalText,
                   refreshTimeout, refreshTimers, opTimers, typed, writes,
                   collapseVars, printMode>>

\* the user changes the text in the editor: the editor-change event
Typed(piece) ==
    /\ EditorChangeStep(piece)
    /\ lastOp' = [kind |-> "editor-change", skip |-> skipNextRefresh,
                  pending |-> refreshTimeout]

\* an editor-change event for which the text is the same
Notified ==
    /\ EditorChangeEventStep
    /\ lastOp' = [kind |-> "editor-change", skip |-> skipNextRefresh,
                  pending |-> refreshTimeout]

\* 100 ms pass while no debounce timer is due
Tick ==
    /\ refreshTimeout # <<>>
    /\ \A k \in 1..Len(refreshTimeout) : refreshTimeout[k] > 0
    /\ refreshTimeout' = [k \in 1..Len(refreshTimeout) |-> refreshTimeout[k] - 1]
    /\ lastOp' = [kind |-> "tick"]
    /\ UNCHANGED <<commentPrefix, content, comments, forestVars, pc, originalText,
                   skipNextRefresh, refreshTimers, opTimers, typed, writes, viewVars>>

\* the debounce timer fires when its 500 ms have passed
DebounceExpires ==
    /\ refreshTimeout # <<>>
    /\ Head(refreshTimeout) = 0
    /\ DebounceFireStep
    /\ lastOp' = [kind |-> "debounce", pending |-> refreshTimeout]

InitRefresh == PanelOpenedOn(RefreshSeeds)

NextRefresh ==
    \/ \E piece \in TypedPieces : Typed(piece)
    \/ Notified
    \/ \E i \in 1..Len(comments) : RowClick(i)
    \/ \E k \in ListedGroups : HeaderClick(k)
    \/ SkipTimerFire
    \/ Tick
    \/ DebounceExpires
    \/ RenderCallback

SpecRefresh == InitRefresh /\ [][NextRefresh]_vars

----------------------------------------------------------------------------
(* Claims about the automatic refresh *)

\* C23: at most one debounced refresh is pending; a change notification that
\* arrives while the skip flag is clear cancels the pending refresh and
\* schedules a new one, so the refresh of a burst of notifications runs
\* once, when 500 ms have passed since the last of them, and leaves none
\* pending.
C23_OneDebouncedRefresh ==
    [][/\ Len(refreshTimeout') <= 1
       /\ (Step("editor-change") /\ ~skipNextRefresh) =>
              refreshTimeout' = <<DebounceDelay>>
       /\ Step("debounce") =>
              /\ refreshTimeout = <<0>>
              /\ refreshTimeout' = <<>>
              /\ refreshTimers' = refreshTimers + 1]_vars

\* a notification has replaced a debounce timer that had run for part of
\* its delay
C23_Witness ==
    /\ lastOp.kind = "editor-change"
    /\ ~lastOp.skip
    /\ lastOp.pending = <<2>>
    /\ refreshTimeout = <<DebounceDelay>>

\* what the panel shows and what it has scheduled
PanelRendering ==
    <<comments, originalText, forestVars, collapseVars, refreshTimeout, refreshTimers>>

\* C24: a change notification that arrives while skipNextRefresh is set
\* clears the flag, schedules no refresh and leaves the panel as it is; a
\* notification that arrives while the flag is clear schedules a refresh;
\* the timer of a navigation click clears the flag.
C24_SkipsExactlyOnce ==
    [][/\ (Step("editor-change") /\ skipNextRefresh) =>
              /\ ~skipNextRefresh'
              /\ UNCHANGED PanelRendering
       /\ (Step("editor-change") /\ ~skipNextRefresh) =>
              /\ ~skipNextRefresh'
              /\ refreshTimeout' = <<DebounceDelay>>
       /\ skipTimers' < skipTimers => ~skipNextRefresh']_vars

\* a notification has been swallowed by the flag and has scheduled nothing
C24_Witness ==
    /\ lastOp.kind = "editor-change"
    /\ lastOp.skip
    /\ ~skipNextRefresh
    /\ refreshTimeout = <<>>
    /\ refreshTimers = 0

\* no timer and no render callback is pending
Quiescent ==
    /\ refreshTimeout = <<>>
    /\ refreshTimers = 0
    /\ opTimers = 0
    /\ skipTimers = 0

\* the panel holds the comments and the forest of the text of the editor
PanelShowsCurrentText ==
    LET p == processComments(content)
    IN  /\ comments = p.comments
        /\ allHeaders = SortByLine(p.headers)
        /\ result = p.result
        /\ Len(groups) = Len(p.nodes)

\* C25: the render callback of a refresh shows the text that the editor
\* holds when the callback runs, and when no timer and no callback is
\* pending the panel shows the comments and the forest of the editor's text.
C25_LatestStateWins ==
    /\ [][Step("render") => comments' = extractComments(content, commentPrefix)]_vars
    /\ [](Quiescent => PanelShowsCurrentText)

----------------------------------------------------------------------------
(* The confirmations of a delete and of a single conversion: the confirm    *)
(* dialog of the delete button and the conversion modal.  The editor is not  *)
(* typed into while the modal is open; the timers that re-render the panel   *)
(* are not part of this specification.                                       *)

\* a click that deletes whatever the dialog returned
AnyAnswer(confirmDelete) == TRUE

\* if (confirmDelete)
Accepted(confirmDelete) == confirmDelete

\* the delete button of row i: confirm(...), then deleteCommentFromEditor
DeleteClick(i, confirmDelete) ==
    /\ pc = "idle"
    /\ i \in 1..Len(comments)
    /\ IF Accepted(confirmDelete)
       THEN deleteCommentFromEditor(comments[i])
       ELSE NotFoundSilently
    /\ lastOp' = [kind |-> "deleteClick", confirmDelete |-> confirmDelete,
                  stale |-> comments[i], before |-> content]
    /\ UNCHANGED <<commentPrefix, forestVars, keptVars, pc, typed>>

\* the convert button of row i: new CommentConversionModal(app, comment,
\* onConfirm).open()
ConvertClick(i) ==
    /\ pc = "idle"
    /\ i \in 1..Len(comments)
    /\ pc' = "conversionModal"
    /\ lastOp' = [kind |-> "conversionModal", comment |-> comments[i]]
    /\ UNCHANGED <<commentPrefix, content, comments, forestVars, panelVars, viewVars>>

\* what the user leaves in the title field of the modal
TitleInputs == {<<>>, <<"T", " ">>}

\* 'Convert to Callout' in the modal: onConfirm(titleInput.value.trim()),
\* close()
ModalConvert(value) ==
    /\ pc = "conversionModal"
    /\ convertCommentToCallout(lastOp.comment, Trim(value))
    /\ pc' = "idle"
    /\ lastOp' = [kind |-> "modalConvert", customTitle |-> Trim(value),
                  before |-> content]
    /\ UNCHANGED <<commentPrefix, forestVars, keptVars, typed>>

\* 'Cancel' in the modal: close()
ModalCancel ==
    /\ pc = "conversionModal"
    /\ pc' = "idle"
    /\ lastOp' = [kind |-> "modalCancel"]
    /\ UNCHANGED <<commentPrefix, content, comments, forestVars, panelVars, viewVars>>

\* the user changes the text in the editor while no modal is open
TypeInDocument(piece) ==
    /\ pc = "idle"
    /\ EditorChange(piece)

NextConfirm ==
    \/ \E i \in 1..Len(comments), confirmDelete \in BOOLEAN : DeleteClick(i, confirmDelete)
    \/ \E i \in 1..Len(comments) : ConvertClick(i)
    \/ \E value \in TitleInputs : ModalConvert(value)
    \/ ModalCancel
    \/ \E piece \in TypedPieces : TypeInDocument(piece)

\* the documents the panel is opened on: those of the panel and the editor,
\* and one with a run of two spaces inside an annotation
ConfirmSeeds ==
    Seeds \union {<<"%", "%", "a", " ", " ", "b", "%", "%", " ", "%", "%", "x", "%", "%">>}

InitConfirm == PanelOpenedOn(ConfirmSeeds)

SpecConfirm == InitConfirm /\ [][NextConfirm]_vars

\* C26: a click on the delete button whose confirm dialog is declined, the
\* opening of the conversion modal and its Cancel button leave the text of
\* the editor as it is; the panel changes the text only by a delete whose
\* dialog was accepted or by 'Convert to Callout' in the modal.
C26_ConfirmedOnly ==
    [][/\ (Step("deleteClick") /\ ~lastOp'.confirmDelete) => content' = content
       /\ Step("conversionModal") => content' = content
       /\ Step("modalCancel") => content' = content
       /\ content' # content =>
             \/ typed' = typed + 1
             \/ Step("deleteClick") /\ lastOp'.confirmDelete
             \/ Step("modalConvert") /\ pc = "conversionModal"]_vars

\* a delete whose dialog was accepted has changed the text
C26_Witness ==
    /\ lastOp.kind = "deleteClick"
    /\ lastOp.confirmDelete
    /\ content # lastOp.before

----------------------------------------------------------------------------
(* Editing a row of the panel: the text element of the row, Enter or Save,   *)
(* Escape or Cancel.  The texts typed into a row are not blank, so a row     *)
(* whose originalText is empty has not been committed since it was rendered. *)

\* the documents the panel is opened on: an annotation without text, and an
\* annotation between runs of two spaces
EditSeeds ==
    {<<"%", "%", "%", "%">>,
     <<"a", " ", " ", "%", "%", "x", "%", "%", " ", " ", "b">>}

\* what the user leaves in the text element of a row
EditInputs == {<<"b", " ">>, <<"x">>}

\* '(empty comment)'
Placeholder ==
    <<"(", "e", "m", "p", "t", "y", " ",
      "c", "o", "m", "m", "e", "n", "t", ")">>

\* textEl.textContent = comment.text || '(empty comment)'
TextContent(comment) ==
    IF comment.text # <<>> THEN comment.text ELSE Placeholder

\* saveComment of row i, the text element holding textContent; edited tells
\* whether the user has typed into the element
saveComment(i, textContent, edited) ==
    /\ i \in 1..Len(comments)
    /\ LET newText == Trim(textContent)
       IN  /\ IF newText # originalText[i]
              THEN SaveCommentStep(i, newText)
              ELSE UNCHANGED <<commentPrefix, content, comments, forestVars,
                               panelVars, viewVars, pc>>
           /\ lastOp' = [kind |-> "commit", edited |-> edited, newText |-> newText,
                         was |-> originalText[i], stale |-> comments[i],
                         before |-> content,
                         target |-> EditTarget(extractComments(content, commentPrefix),
                                               comments[i])]

\* the user clicks the text of row i, types nothing and presses Enter or Save
CommitUntouched(i) ==
    /\ i \in 1..Len(comments)
    /\ originalText[i] = comments[i].text
    /\ saveComment(i, TextContent(comments[i]), FALSE)

\* the user replaces the text of row i by input and presses Enter or Save
CommitTyped(i, input) ==
    saveComment(i, input, TRUE)

\* Escape or Cancel in row i: cancelEdit
CancelEdit(i) ==
    /\ i \in 1..Len(comments)
    /\ lastOp' = [kind |-> "cancelEdit", row |-> i]
    /\ UNCHANGED <<commentPrefix, content, comments, forestVars, panelVars, viewVars, pc>>

InitEdit == PanelOpenedOn(EditSeeds)

NextEdit ==
    \/ \E i \in 1..Len(comments) : CommitUntouched(i)
    \/ \E i \in 1..Len(comments), input \in EditInputs : CommitTyped(i, input)
    \/ \E i \in 1..Len(comments) : CancelEdit(i)
    \/ \E piece \in TypedPieces : EditorChange(piece)
    \/ DebounceFire
    \/ OpTimerFire
    \/ RefreshCallback

SpecEdit == InitEdit /\ [][NextEdit]_vars

----------------------------------------------------------------------------
(* Claims about the edit of a row *)

\* C31: committing the row of an annotation without text, with nothing
\* typed into it, leaves the text of the editor unchanged.
C31_PlaceholderNotStored ==
    [][(Step("commit") /\ ~lastOp'.edited /\ lastOp'.stale.text = <<>>) =>
           content' = content]_vars

\* C32: a commit whose text differs from the pre-edit text and whose
\* annotation is found replaces the span of the annotation by the delimiter,
\* a space, the new text, a space and the delimiter, and keeps the text
\* before and after the span character for character; a commit of the
\* pre-edit text and a cancel write nothing.
C32_EditReplacesSpan ==
    [][/\ (Step("commit") /\ lastOp'.newText # lastOp'.was
             /\ lastOp'.target # NoComment) =>
              /\ content' = Substring(content, 0, lastOp'.target.startPos)
                               \o commentPrefix \o <<" ">> \o lastOp'.newText
                               \o <<" ">> \o commentPrefix
                               \o SubstringFrom(content, lastOp'.target.endPos)
              /\ writes' = writes + 1
       /\ (Step("commit") /\ lastOp'.newText = lastOp'.was) =>
              UNCHANGED <<content, writes>>
       /\ Step("cancelEdit") => UNCHANGED <<content, writes>>]_vars

\* a commit has replaced the annotation between the runs of two spaces
C32_Witness ==
    /\ lastOp.kind = "commit"
    /\ lastOp.newText = <<"b">>
    /\ lastOp.was = <<"x">>
    /\ content = <<"a", " ", " ", "%", "%", " ", "b", " ", "%", "%", " ", " ", "b">>

----------------------------------------------------------------------------
(* Claims about the display of the groups *)

\* every group in the comments list is displayed as its isCollapsed tells
DisplayAgrees ==
    \A j \in Listed :
        renderedGroups[j].display = ~GroupOf(renderedGroups[j]).isCollapsed

\* C33: a click on a collapse icon or on the toggle button of the header
\* leaves every rendered group displayed as its isCollapsed flag tells, the
\* descendants of a collapsed group included.
C33_DisplayAgreesWithFlag ==
    [][(DisplayAgrees /\ (Step("toggle") \/ Step("toggleAll"))) =>
           DisplayAgrees']_vars

----------------------------------------------------------------------------
(* Claims about the bodies of the panel *)

\* C34: whatever the order of the refresh calls and of their deferred
\* callbacks, the container of the panel holds at most one body, a comments
\* list or an empty-state message.
C34_OneBody == commentsList.bodies <= 1

----------------------------------------------------------------------------
(* Navigation clicks in quick succession.  The clicks of this specification *)
(* are clicks on heading texts, whose timers all run for 100 ms: the timer   *)
(* that fires is the oldest one, and a timer that is still pending after it  *)
(* belongs to a later click.                                                 *)

MaxClicks == 2

InitClicks == PanelOpenedOn(ViewSeeds)

NextClicks ==
    \/ \E k \in ListedGroups : HeaderClickWithin(k, MaxClicks)
    \/ SkipTimerFire
    \/ Notified
    \/ DebounceFire
    \/ RenderCallback

SpecClicks == InitClicks /\ [][NextClicks]_vars

\* C35: the timer of an earlier navigation click does not clear the flag set
\* by a later click: when a timer fires while the timer of a later click is
\* still pending, skipNextRefresh stays set.
C35_LaterClickKeepsFlag ==
    [][(skipTimers' < skipTimers /\ skipTimers' > 0 /\ skipNextRefresh) =>
           skipNextRefresh']_vars

----------------------------------------------------------------------------
(* Claims about the text left by a delete *)

\* s without the spaces at its end
RECURSIVE DropSpacesEnd(_)
DropSpacesEnd(s) ==
    IF s # <<>> /\ s[Len(s)] = " " THEN DropSpacesEnd(SubSeq(s, 1, Len(s) - 1)) ELSE s

\* s without the spaces at its start
RECURSIVE DropSpacesStart(_)
DropSpacesStart(s) ==
    IF s # <<>> /\ Head(s) = " " THEN DropSpacesStart(Tail(s)) ELSE s

\* before and after joined, the run of spaces at the joint folded into one
\* space when it holds two or more
JoinedFolded(before, after) ==
    LET b == DropSpacesEnd(before)
        a == DropSpacesStart(after)
        run == (Len(before) - Len(b)) + (Len(after) - Len(a))
    IN  b \o (IF run = 0 THEN <<>> ELSE <<" ">>) \o a

\* the sequence cs without its element k
Without(cs, k) == SubSeq(cs, 1, k - 1) \o SubSeq(cs, k + 1, Len(cs))

\* C36: a confirmed delete whose annotation is found leaves a text whose
\* annotations are the previous ones without the target, each with its
\* text, and which differs from the previous text outside the deleted span
\* only by the folding of the run of spaces at the place of the span.
C36_DeleteRemovesExactlyTarget ==
    [][(Step("deleteClick") /\ lastOp'.confirmDelete) =>
           LET cs == extractComments(content, commentPrefix)
               target == DeleteTarget(cs, lastOp'.stale)
           IN  target # NoComment =>
                   LET k == CHOOSE j \in 1..Len(cs) : cs[j] = target
                   IN  /\ Texts(extractComments(content', commentPrefix))
                              = Texts(Without(cs, k))
                       /\ content' = JoinedFolded(Substring(content, 0, target.startPos),
                                                  SubstringFrom(content, target.endPos))]_vars

----------------------------------------------------------------------------
(* Claims about a second restore *)

\* C37: once the original text has been restored after a swap, a later
\* restore leaves the text of the editor as it is, with the edits made
\* since the first restore.
C37_RestoredOnce ==
    [][(Step("restore") /\ printMode.pc = "command") => content' = content]_vars

----------------------------------------------------------------------------
(* Claims about headings with the same level and text *)

\* the pairs of distinct groups with content whose headings have the same
\* level and text, one collapsed and the other expanded
Twins ==
    {<<k, m>> \in GroupsWithContent \X GroupsWithContent :
        /\ k # m
        /\ groups[k].header # NoHeader
        /\ groups[m].header # NoHeader
        /\ Key(groups[k].header) = Key(groups[m].header)
        /\ groups[k].isCollapsed # groups[m].isCollapsed}

\* C38: a rebuild with hasManualExpansions set, on unchanged headings, leaves
\* each of two groups whose headings have the same level and text in the
\* state it had, in its flag and in its display.
C38_TwinsKeepStates ==
    [][(Step("render") /\ hasManualExpansions /\ allHeaders' = allHeaders
            /\ Len(groups') = Len(groups)) =>
           \A t \in Twins :
               /\ groups'[t[1]].isCollapsed = groups[t[1]].isCollapsed
               /\ \A j \in 1..Len(renderedGroups') :
                      (~renderedGroups'[j].copy /\ renderedGroups'[j].idx = t[1]) =>
                          renderedGroups'[j].display = ~groups[t[1]].isCollapsed]_vars

----------------------------------------------------------------------------
(* The scan of extractComments, one exec of the loop at a time, and the     *)
(* prefix field of the settings tab.  lastOp holds commentRegex.lastIndex.   *)
(* The panel is closed, so refreshCommentsView finds no view to refresh.     *)

MaxScanLen == 4

\* what the user leaves in the prefix field of the settings tab
PrefixInputs == {<<>>, <<"%">>, <<" ">>, <<"%", "%">>}

\* a settings tab that stores the field as it is
AsTyped(value) == value

\* value || '%%'
OrDefault(value) == IF value = <<>> THEN <<"%", "%">> ELSE value

\* onChange of the prefix field: the setting is stored and saved
ChangePrefix(value) ==
    /\ pc = "start"
    /\ commentPrefix' = OrDefault(value)
    /\ lastOp' = [kind |-> "prefix", value |-> value]
    /\ UNCHANGED <<content, comments, forestVars, pc, panelVars, viewVars>>

\* extractComments up to its loop: the regex is built, lastIndex is 0
BeginExtract ==
    /\ pc = "start"
    /\ pc' = "scanning"
    /\ comments' = <<>>
    /\ lastOp' = [kind |-> "exec", lastIndex |-> 0, match |-> NoMatch]
    /\ UNCHANGED <<commentPrefix, content, forestVars, panelVars, viewVars>>

\* one turn of the while loop: commentRegex.exec(content), and the push
Exec ==
    /\ pc = "scanning"
    /\ LET match == RegexExec(content, commentPrefix, lastOp.lastIndex)
       IN  IF match = NoMatch
           THEN /\ pc' = "extracted"
                /\ lastOp' = [kind |-> "exec", lastIndex |-> 0, match |-> NoMatch]
                /\ UNCHANGED comments
           ELSE /\ comments' = Append(comments, MakeComment(content, match))
                /\ lastOp' = [kind |-> "exec", lastIndex |-> NextLastIndex(match),
                              match |-> match]
                /\ UNCHANGED pc
    /\ UNCHANGED <<commentPrefix, content, forestVars, panelVars, viewVars>>

InitScan ==
    /\ commentPrefix = <<"%", "%">>
    /\ content \in StringsUpTo(MaxScanLen)
    /\ comments = <<>>
    /\ allHeaders = <<>>
    /\ groups = <<>>
    /\ result = <<>>
    /\ lastOp = NoOp
    /\ pc = "start"
    /\ PanelIdle

NextScan ==
    \/ \E value \in PrefixInputs : ChangePrefix(value)
    \/ BeginExtract
    \/ Exec

SpecScan == InitScan /\ [][NextScan]_vars /\ WF_vars(Exec)

\* C39: the prefix stored by the settings tab is never empty; every match of
\* the scan is at least twice as long as the prefix and moves lastIndex
\* forward, within the text; and a scan that has begun comes to its end.
C39_ScanTerminates ==
    /\ [](commentPrefix # <<>>)
    /\ [][(pc = "scanning" /\ pc' = "scanning") =>
             /\ Len(lastOp'.match.m0) >= 2 * Len(commentPrefix)
             /\ lastOp'.lastIndex > lastOp.lastIndex
             /\ lastOp'.lastIndex <= Len(content)]_vars
    /\ (pc = "scanning") ~> (pc = "extracted")

\* a scan with the prefix "%" has ended after two matches
C39_Witness ==
    /\ pc = "extracted"
    /\ commentPrefix = <<"%">>
    /\ Len(comments) = 2

====
